---- MODULE Spec2Model ----
(***************************************************************************)
(* Lyric translation pipeline of the Spotify Lyrics API backend:           *)
(*   - the /translate-lines handler (batching, per-item fallback, delays), *)
(*   - DeepLTranslator.translate_lyrics (validation, cache gate, provider  *)
(*     call) and translate_batch_sync,                                     *)
(*   - LyricFormatter (preprocess, split into segments, reassemble).       *)
(* A text is a sequence of one-character strings, so that strip(), split() *)
(* and the regular expressions are computed character by character.        *)
(***************************************************************************)
EXTENDS Integers, Sequences, FiniteSets, TLC

VARIABLES
    \* ---- /translate-lines (src/backend/main.py, translate_lines_overlay)
    DEEPL_API_KEY,      \* the configured key ("" when DEEPL_API_KEY is unset)
    request,            \* the OverlayTranslationRequest being served
    pc,                 \* where the handler is: its next await, or "done"
    units,              \* the lines the handler walks over, once split
    overlay_lines,      \* the result list under construction (NoneLine = unset)
    lines_to_translate, \* texts of the non-blank lines, in order
    translate_indices,  \* their positions in the request (1-based here)
    i,                  \* offset of the current chunk in lines_to_translate
    fb,                 \* position inside the chunk during the fallback loop
    detected_lang,      \* first detected language seen ("" = None)
    http,               \* the HTTP answer of the handler once pc = "done"
    log,                \* history: the provider-facing calls and the delays
    failures,           \* how many provider calls have misbehaved so far
    answers,            \* history: what each provider-facing call gave back
    parked,             \* <<frame>> of a second request suspended at an await
    \* ---- DeepLTranslator.translate_lyrics (deepl_translator.py)
    translator,         \* the DeepLTranslator instance (self)
    redis,              \* what the Redis server holds: cache key -> stored value
    hash_seed,          \* the hash seed of the running Python process
    call,               \* the arguments of the translate_lyrics call
    call_result,        \* what that call raised or returned, and what it did
    tpc,                \* "new", "ready" once constructed, "done" after a call
    redis_installed,    \* the redis package can be imported (REDIS_AVAILABLE)
    redis_before,       \* what Redis held when the last call began
    calls,              \* how many translate_lyrics calls have been made
    prev_call,          \* the arguments of the call before the last
    prev_result,        \* and what it raised or returned
    \* ---- LyricFormatter (src/translation-library/lyric_formatter.py)
    lyrics,             \* the lyrics handed to the formatter
    max_segment_length, \* the max_segment_length argument
    doc,                \* the text as it stands (preprocessed or not)
    passes,             \* how many times preprocess_lyrics has been applied
    segments,           \* the list split_into_segments returned
    segment_results,    \* the result dicts handed to reassemble_segments
    reassembled,        \* the text reassemble_segments returned
    fpc                 \* "text", then "split", then "reassembled"

pipeVars == <<DEEPL_API_KEY, request, pc, units, overlay_lines,
              lines_to_translate, translate_indices, i, fb, detected_lang,
              http, log, failures, answers, parked>>

langVars == <<translator, redis, hash_seed, call, call_result, tpc,
              redis_installed, redis_before, calls, prev_call, prev_result>>

fmtVars == <<lyrics, max_segment_length, doc, passes, segments,
             segment_results, reassembled, fpc>>

vars == <<pipeVars, langVars, fmtVars>>

-----------------------------------------------------------------------------
(* Bounds of the exploration *)

\* longest request explored, in lines
MaxLines == 23
\* provider calls that may misbehave during one request
MaxFailures == 2

-----------------------------------------------------------------------------
(* Text helpers: Python's str methods on sequences of characters *)

\* the characters Python's str.strip() and the regex class \s remove/match
Whitespace == {" ", "\t", "\n"}

RECURSIVE LStrip(_)
LStrip(s) == IF s # <<>> /\ Head(s) \in Whitespace THEN LStrip(Tail(s)) ELSE s

RECURSIVE RStrip(_)
RStrip(s) ==
    IF s # <<>> /\ s[Len(s)] \in Whitespace
    THEN RStrip(SubSeq(s, 1, Len(s) - 1))
    ELSE s

\* str.strip()
Strip(s) == RStrip(LStrip(s))

\* str.split(c) for a one-character separator c
SplitOn(s, c) ==
    LET seps == {k \in 1..Len(s) : s[k] = c}
        \* where the j-th separator stands; 0 and Len(s) + 1 bound the text
        nth(j) == IF j = 0 THEN 0
                  ELSE IF j > Cardinality(seps) THEN Len(s) + 1
                  ELSE CHOOSE k \in seps :
                           Cardinality({m \in seps : m < k}) = j - 1
    IN  [j \in 1..(Cardinality(seps) + 1) |->
            SubSeq(s, nth(j - 1) + 1, nth(j) - 1)]

\* sep.join(parts)
RECURSIVE Join(_, _)
Join(parts, sep) ==
    IF parts = <<>> THEN <<>>
    ELSE IF Len(parts) = 1 THEN parts[1]
    ELSE parts[1] \o sep \o Join(Tail(parts), sep)

Min(a, b) == IF a <= b THEN a ELSE b

-----------------------------------------------------------------------------
(* Language codes: DeepLTranslator.SUPPORTED_LANGUAGES and str.upper() *)

SUPPORTED_LANGUAGES ==
    {"AR", "BG", "CS", "DA", "DE", "EL", "EN", "EN-GB", "EN-US", "ES", "ET",
     "FI", "FR", "HU", "ID", "IT", "JA", "KO", "LT", "LV", "NB", "NL", "PL",
     "PT", "PT-BR", "PT-PT", "RO", "RU", "SK", "SL", "SV", "TR", "UK", "ZH"}

\* spellings with lower-case letters and the result of str.upper() on them
UpperPairs ==
    {<<"ar", "AR">>, <<"bg", "BG">>, <<"cs", "CS">>, <<"da", "DA">>,
     <<"de", "DE">>, <<"el", "EL">>, <<"en", "EN">>, <<"en-gb", "EN-GB">>,
     <<"en-us", "EN-US">>, <<"es", "ES">>, <<"et", "ET">>, <<"fi", "FI">>,
     <<"fr", "FR">>, <<"hu", "HU">>, <<"id", "ID">>, <<"it", "IT">>,
     <<"ja", "JA">>, <<"ko", "KO">>, <<"lt", "LT">>, <<"lv", "LV">>,
     <<"nb", "NB">>, <<"nl", "NL">>, <<"pl", "PL">>, <<"pt", "PT">>,
     <<"pt-br", "PT-BR">>, <<"pt-pt", "PT-PT">>, <<"ro", "RO">>,
     <<"ru", "RU">>, <<"sk", "SK">>, <<"sl", "SL">>, <<"sv", "SV">>,
     <<"tr", "TR">>, <<"uk", "UK">>, <<"zh", "ZH">>,
     <<"Es", "ES">>, <<"Pt-Br", "PT-BR">>,
     <<"xx", "XX">>, <<"invalid", "INVALID">>, <<"eng", "ENG">>}

\* str.upper(): spellings without lower-case letters are left as they are
Upper(code) ==
    IF \E p \in UpperPairs : p[1] = code
    THEN (CHOOSE p \in UpperPairs : p[1] = code)[2]
    ELSE code

\* Python's None for an optional string, and the falsy strings
None == "None"
Falsy(s) == s = None \/ s = ""

-----------------------------------------------------------------------------
(* The translation provider (DeepL /v2/translate) as seen through requests  *)

\* the provider's translation of a text and the language it reports
Translated(text) == <<"#">> \o text
DetectedLanguage == "EN"

TranslationEntry(text) ==
    [fields |-> {"text", "detected_source_language"},
     text |-> Translated(text),
     detected_source_language |-> DetectedLanguage]

\* an entry of the JSON answer with one key missing
EntryWithout(text, key) ==
    [TranslationEntry(text) EXCEPT !.fields = @ \ {key}]

\* the answer in request order, one entry per text sent
ExactTranslations(texts) ==
    [m \in 1..Len(texts) |-> TranslationEntry(texts[m])]

\* requests.post raised requests.exceptions.RequestException (timeout, ...)
NetworkFailure ==
    [exception |-> "RequestException", status_code |-> 0,
     has_translations |-> FALSE, translations |-> <<>>]

\* a response with a status code other than 200
HttpError(code) ==
    [exception |-> "", status_code |-> code,
     has_translations |-> FALSE, translations |-> <<>>]

\* a 200 response whose JSON body holds "translations"
Http200(entries) ==
    [exception |-> "", status_code |-> 200,
     has_translations |-> TRUE, translations |-> entries]

\* a 200 response whose JSON body has no "translations" key
Http200NoKey ==
    [exception |-> "", status_code |-> 200,
     has_translations |-> FALSE, translations |-> <<>>]

\* the response that keeps the provider's contract for the texts sent
GoodResponse(texts) == Http200(ExactTranslations(texts))

\* everything the provider may answer to a call carrying `texts`
ProviderResponses(texts) ==
    {GoodResponse(texts),
     NetworkFailure, HttpError(429), HttpError(500), Http200NoKey,
     Http200(SubSeq(ExactTranslations(texts), 1, Len(texts) - 1)),
     Http200(Tail(ExactTranslations(texts))),
     Http200(Append(ExactTranslations(texts), TranslationEntry(<<>>))),
     Http200(<<EntryWithout(texts[1], "text")>>
             \o Tail(ExactTranslations(texts))),
     Http200(<<EntryWithout(texts[1], "detected_source_language")>>
             \o Tail(ExactTranslations(texts)))}

-----------------------------------------------------------------------------
(* TranslationCache (src/backend/translation_library/translation_cache.py) *)

\* json.dumps / json.loads of a result dict
JsonDumps(value) == [json |-> value]
JsonLoads(s) == s.json

\* a stored value json.loads cannot decode
Garbage == [garbage |-> TRUE]

\* an Optional[dict]: <<>> is None, <<d>> is the dict d
NoDict == <<>>

\* stored bytes that are not UTF-8: json.loads raises UnicodeDecodeError,
\* a ValueError that is not a JSONDecodeError
NotUtf8 == [not_utf8 |-> TRUE]

\* module-level `import redis`: TranslationCache() raises ImportError when
\* the redis package is missing (REDIS_AVAILABLE is False)
TranslationCacheRaises(redis_available) ==
    IF redis_available THEN "" ELSE "ImportError"

\* what a cache lookup comes back with: an exception, or Optional[dict]
Looked(raise, value) == [raise |-> raise, value |-> value]

\* TranslationCache.get: None on a miss, on RedisError and on
\* JSONDecodeError; any other exception of json.loads propagates
CacheGet(store, key, redis_up) ==
    IF ~redis_up THEN Looked("", NoDict)
    ELSE IF key \notin DOMAIN store THEN Looked("", NoDict)
    ELSE IF store[key] = Garbage THEN Looked("", NoDict)
    ELSE IF store[key] = NotUtf8 THEN Looked("UnicodeDecodeError", NoDict)
    ELSE Looked("", <<JsonLoads(store[key])>>)

\* a set that writes nothing
CacheSetNowhere(store, key, value, redis_up) == store

\* TranslationCache.set: setex(key, ttl, json.dumps(value)); RedisError is swallowed
CacheSet(store, key, value, redis_up) ==
    IF ~redis_up THEN store
    ELSE [k \in DOMAIN store \cup {key} |->
              IF k = key THEN JsonDumps(value) ELSE store[k]]

-----------------------------------------------------------------------------
(* DeepLTranslator (src/backend/translation_library/deepl_translator.py) *)

\* the characters of the modelled texts, for hash()
Chars == <<" ", "\t", "\n", "#", "0", "1", "2", "3", "4", "5", "6", "7",
           "8", "9", "a", "b">>
CharCode(c) == CHOOSE k \in 1..Len(Chars) : Chars[k] = c

\* size of the modelled range of hash()
HashRange == 7

\* Python's hash(text): a function of the text and the process's hash seed
RECURSIVE PyHash(_, _)
PyHash(seed, text) ==
    IF text = <<>> THEN seed % HashRange
    ELSE (PyHash(seed, Tail(text)) * 3 + CharCode(Head(text))) % HashRange

\* DeepLTranslator.__init__ raises what TranslationCache() raises, when it
\* builds one
DeepLTranslatorRaises(use_cache, redis_available) ==
    IF use_cache THEN TranslationCacheRaises(redis_available) ELSE ""

\* DeepLTranslator.__init__ with an api key given
DeepLTranslator(api_key, use_cache) ==
    [api_key |-> api_key, use_cache |-> use_cache,
     cache |-> IF use_cache THEN "TranslationCache" ELSE None]

\* _validate_language raises InvalidLanguageError
ValidateLanguageRaises(lang_code) ==
    ~Falsy(lang_code) /\ Upper(lang_code) \notin SUPPORTED_LANGUAGES

\* every error raised under one name
RaisedUntyped(name, net, gets, store) ==
    [raise |-> "TranslationError", value |-> NoDict, net |-> net,
     gets |-> gets, sets |-> 0, store |-> store]

\* the outcome of a call: what it raised ("" = returned), what it returned,
\* and what it did on the way (network calls, cache lookups, cache stores)
Raised(name, net, gets, store) ==
    [raise |-> name, value |-> NoDict, net |-> net, gets |-> gets, sets |-> 0,
     store |-> store]
Returned(value, net, gets, sets, store) ==
    [raise |-> "", value |-> value, net |-> net, gets |-> gets, sets |-> sets,
     store |-> store]

\* cache_key = f"{source_lang or 'auto'}:{target_lang}:{hash(text)}"
CacheKey(seed, text, target_lang, source_lang) ==
    <<IF Falsy(source_lang) THEN "auto" ELSE source_lang, target_lang,
      PyHash(seed, text)>>

\* DeepLTranslator.translate_lyrics: env is [seed, redis_up, response]
translate_lyrics(self, text, target_lang, source_lang, store, env) ==
    IF ValidateLanguageRaises(target_lang)
    THEN Raised("InvalidLanguageError", 0, 0, store)
    ELSE IF ~Falsy(source_lang) /\ ValidateLanguageRaises(source_lang)
    THEN Raised("InvalidLanguageError", 0, 0, store)
    ELSE
    LET cache_key == CacheKey(env.seed, text, target_lang, source_lang)
        caching == self.use_cache /\ self.cache # None
        looked == IF caching THEN CacheGet(store, cache_key, env.redis_up)
                  ELSE Looked("", NoDict)
        cached == looked.value
        gets == IF caching THEN 1 ELSE 0
        response == env.response
    IN  IF looked.raise # "" THEN Raised(looked.raise, 0, gets, store)
        ELSE IF cached # NoDict THEN Returned(cached[1], 0, gets, 0, store)
        ELSE IF response.exception # ""
        THEN Raised("TranslationError", 1, gets, store)
        ELSE IF response.status_code = 429
        THEN Raised("RateLimitError", 1, gets, store)
        ELSE IF response.status_code # 200
        THEN Raised("TranslationError", 1, gets, store)
        ELSE IF ~response.has_translations
        THEN Raised("KeyError", 1, gets, store)
        ELSE IF response.translations = <<>>
        THEN Raised("IndexError", 1, gets, store)
        ELSE IF response.translations[1].fields
                    # {"text", "detected_source_language"}
        THEN Raised("KeyError", 1, gets, store)
        ELSE
        LET translation ==
                [original_text |-> text,
                 translated_text |-> response.translations[1].text,
                 detected_language |->
                     response.translations[1].detected_source_language,
                 target_language |-> target_lang,
                 confidence |-> "high"]
        IN  Returned(translation, 1, gets, IF caching THEN 1 ELSE 0,
                     IF caching
                     THEN CacheSet(store, cache_key, translation, env.redis_up)
                     ELSE store)

\* DeepLTranslator.translate_batch_lyrics: the list comprehension calls
\* translate_lyrics(text, target_lang) text by text; envs[k] is the
\* environment of the k-th call
RECURSIVE translate_batch_lyrics(_, _, _, _, _)
translate_batch_lyrics(self, texts, target_lang, store, envs) ==
    IF texts = <<>> THEN Returned(<<>>, 0, 0, 0, store)
    ELSE LET first == translate_lyrics(self, Head(texts), target_lang, None,
                                       store, Head(envs))
         IN  IF first.raise # "" THEN first
             ELSE LET rest == translate_batch_lyrics(self, Tail(texts),
                                                     target_lang, first.store,
                                                     Tail(envs))
                  IN  IF rest.raise # ""
                      THEN Raised(rest.raise, first.net + rest.net,
                                  first.gets + rest.gets, rest.store)
                      ELSE Returned(<<first.value>> \o rest.value,
                                    first.net + rest.net,
                                    first.gets + rest.gets,
                                    first.sets + rest.sets, rest.store)

-----------------------------------------------------------------------------
(* src/backend/translation_helpers.py *)

\* a call without a cache: nothing stored, redis never touched
NoStore == <<>>
Env(response) == [seed |-> 0, redis_up |-> FALSE, response |-> response]

\* translate_lyrics_sync(text, target_lang, source_lang, api_key)
translate_lyrics_sync(text, target_lang, source_lang, api_key, response) ==
    translate_lyrics(DeepLTranslator(api_key, FALSE), text, target_lang,
                     source_lang, NoStore, Env(response))

\* the loop over the returned translations: results.append(...) for each,
\* texts[i] and translation['text'] raising where they are missing
RECURSIVE BatchResults(_, _, _, _, _)
BatchResults(texts, translations, target_lang, m, results) ==
    IF m > Len(translations) THEN [raise |-> "", value |-> results]
    ELSE IF m > Len(texts) THEN [raise |-> "IndexError", value |-> <<>>]
    ELSE IF "text" \notin translations[m].fields
    THEN [raise |-> "KeyError", value |-> <<>>]
    ELSE BatchResults(texts, translations, target_lang, m + 1,
             Append(results,
                    [original_text |-> texts[m],
                     translated_text |-> translations[m].text,
                     detected_language |->
                         IF "detected_source_language"
                                \in translations[m].fields
                         THEN translations[m].detected_source_language
                         ELSE None,
                     target_language |-> target_lang]))

\* translate_batch_sync(texts, target_lang, source_lang, api_key): one POST
\* carrying every text; no language validation before the call
translate_batch_sync(texts, target_lang, source_lang, api_key, response) ==
    IF response.exception # ""
    THEN Raised("TranslationError", 1, 0, NoStore)
    ELSE IF response.status_code = 429
    THEN Raised("RateLimitError", 1, 0, NoStore)
    ELSE IF response.status_code # 200
    THEN Raised("TranslationError", 1, 0, NoStore)
    ELSE IF ~response.has_translations
    THEN Raised("KeyError", 1, 0, NoStore)
    ELSE LET built == BatchResults(texts, response.translations,
                                   target_lang, 1, <<>>)
         IN  IF built.raise # ""
             THEN Raised(built.raise, 1, 0, NoStore)
             ELSE Returned(built.value, 1, 0, 0, NoStore)

-----------------------------------------------------------------------------
(* The requests explored: line lists of several lengths and shapes *)

Digit == <<"0", "1", "2", "3", "4", "5", "6", "7", "8", "9">>

\* the text of line n: its number, so that every line has its own text
Word(n) == <<Digit[(n \div 10) + 1], Digit[(n % 10) + 1]>>

\* the shapes of a line list: no blank line (0), every line blank (1), every
\* second line blank (2), a blank line now and then (7, 11)
Strides == {0, 1, 2, 7, 11}

\* line n is blank when it falls on the stride
BlankAt(n, stride) == stride > 0 /\ n % stride = 0

\* blank lines are empty or whitespace-only; some other lines are padded
LineText(n, stride) ==
    IF BlankAt(n, stride)
    THEN (IF n % 2 = 0 THEN <<>> ELSE <<" ">>)
    ELSE IF n % 4 = 1 THEN <<" ">> \o Word(n) \o <<" ">>
    ELSE Word(n)

\* a LyricsLine (src/backend/lyrics_helpers.py): text and timestamp
LyricsLine(text, timestamp_ms) == [text |-> text, timestamp_ms |-> timestamp_ms]

SyncedLines(count, stride) ==
    [n \in 1..count |-> LyricsLine(LineText(n, stride), 1000 * n)]

\* BATCH_SIZE of translate_lines_overlay
BATCH_SIZE == 20

LineCounts == {0, 1, 2, MaxLines}

\* (target_lang, source_lang) of the request
LanguagePairs == {<<"es", None>>, <<"XX", "EN">>, <<"ES", "xx">>}

\* an OverlayTranslationRequest; lines = <<>> stands for None and for []
\* (the handler only tests it for truth)
OverlayTranslationRequest(count, stride, synced, langs) ==
    LET lines == SyncedLines(count, stride)
    IN  [lyrics |-> IF synced THEN <<>>
                    ELSE Join([n \in 1..count |-> lines[n].text], <<"\n">>),
         lines |-> IF synced THEN lines ELSE <<>>,
         target_lang |-> langs[1],
         source_lang |-> langs[2]]

Requests ==
    {OverlayTranslationRequest(count, stride, synced, langs) :
        count \in LineCounts,
        stride \in Strides,
        synced \in BOOLEAN,
        langs \in LanguagePairs}

-----------------------------------------------------------------------------
(* POST /translate-lines: translate_lines_overlay (src/backend/main.py) *)

\* timestamp_ms of an OverlayLine built without one (Optional[int] = None)
NoTimestamp == -1

OverlayLine(original, translated, timestamp_ms) ==
    [original |-> original, translated |-> translated,
     timestamp_ms |-> timestamp_ms]

\* an entry of overlay_lines: <<>> is None, <<l>> is the OverlayLine l
NoneLine == <<>>

\* `if request.lines:` chooses the synced branch
SyncedBranch(req) == req.lines # <<>>

\* the units the handler walks over: the LyricsLine objects, or the lines of
\* request.lyrics.split('\n'), each stripped
InputUnits(req) ==
    IF SyncedBranch(req) THEN req.lines
    ELSE \* original_lines = request.lyrics.split('\n'), split once
         CHOOSE stripped \in
             {[n \in 1..Len(original_lines) |->
                  LyricsLine(Strip(original_lines[n]), NoTimestamp)] :
              original_lines \in {SplitOn(req.lyrics, "\n")}} : TRUE

\* mutant: the test without strip(), so that a whitespace-only line is sent
NeedsTranslationNoStrip(unit) == unit.text # <<>>

\* the test that sends a unit to the provider: non-blank after strip()
NeedsTranslation(unit) == Strip(unit.text) # <<>>

\* the first pass: blank lines are set directly, the others stay None
InitialOverlay(input) ==
    [n \in 1..Len(input) |->
        IF NeedsTranslation(input[n]) THEN NoneLine
        ELSE <<OverlayLine(<<>>, <<>>, input[n].timestamp_ms)>>]

\* translate_indices: positions of the input to translate, in order
RECURSIVE TranslateIndices(_, _)
TranslateIndices(input, n) ==
    IF n > Len(input) THEN <<>>
    ELSE (IF NeedsTranslation(input[n]) THEN <<n>> ELSE <<>>)
         \o TranslateIndices(input, n + 1)

\* mutant: the slice taken one unit too long
ChunkOneTooLong(seq, offset) ==
    SubSeq(seq, offset + 1, Min(offset + BATCH_SIZE + 1, Len(seq)))

\* lines_to_translate[i:i + BATCH_SIZE] (i is the 0-based offset)
Chunk(seq, offset) ==
    SubSeq(seq, offset + 1, Min(offset + BATCH_SIZE, Len(seq)))

\* mutant: the line is looked up by its position in the batch, not by idx
ZipAssignLineByPosition(overlay, input, results, batch_indices, synced) ==
    [n \in 1..Len(overlay) |->
        IF \E m \in 1..Min(Len(results), Len(batch_indices)) :
               batch_indices[m] = n
        THEN LET m == CHOOSE m \in 1..Min(Len(results), Len(batch_indices)) :
                          batch_indices[m] = n
             IN  <<OverlayLine(IF synced THEN input[m].text
                               ELSE results[m].original_text,
                               results[m].translated_text,
                               input[m].timestamp_ms)>>
        ELSE overlay[n]]

\* for result, idx in zip(results, batch_indices): overlay_lines[idx] = ...
ZipAssign(overlay, input, results, batch_indices, synced) ==
    [n \in 1..Len(overlay) |->
        IF \E m \in 1..Min(Len(results), Len(batch_indices)) :
               batch_indices[m] = n
        THEN LET m == CHOOSE m \in 1..Min(Len(results), Len(batch_indices)) :
                          batch_indices[m] = n
             IN  <<OverlayLine(IF synced THEN input[n].text
                               ELSE results[m].original_text,
                               results[m].translated_text,
                               input[n].timestamp_ms)>>
        ELSE overlay[n]]

\* detected_lang after the loop over a batch's results: each result sets it
\* while it is still None (`if not detected_lang`)
RECURSIVE DetectedAfter(_, _)
DetectedAfter(current, results) ==
    IF results = <<>> THEN current
    ELSE IF Falsy(current)
    THEN DetectedAfter(results[1].detected_language, Tail(results))
    ELSE DetectedAfter(current, Tail(results))

\* mutant: a failed single-unit call leaves an empty translation
FallbackLineEmptyOnFailure(unit, text, outcome, synced) ==
    IF outcome.raise = ""
    THEN OverlayLine(IF synced THEN unit.text ELSE outcome.value.original_text,
                     outcome.value.translated_text, unit.timestamp_ms)
    ELSE OverlayLine(IF synced THEN unit.text ELSE text, <<>>,
                     unit.timestamp_ms)

\* the OverlayLine of one unit after its single-unit call
FallbackLine(unit, text, outcome, synced) ==
    IF outcome.raise = ""
    THEN OverlayLine(IF synced THEN unit.text ELSE outcome.value.original_text,
                     outcome.value.translated_text, unit.timestamp_ms)
    ELSE OverlayLine(IF synced THEN unit.text ELSE text,
                     IF synced THEN unit.text ELSE text, unit.timestamp_ms)

\* the except clauses that end the handler: exception -> HTTP status
ExceptionStatus(exception) ==
    CASE exception = "InvalidLanguageError" -> 400
      [] exception = "RateLimitError" -> 429
      [] exception = "TranslationError" -> 500
      [] OTHER -> 500

HttpException(status_code) ==
    [status_code |-> status_code, lines |-> <<>>, target_language |-> None,
     detected_language |-> None]

\* mutant: a response model that lets the lines without an entry drop out
OverlayResponseSkippingNone(overlay, target_lang, detected) ==
    LET kept == SelectSeq(overlay, LAMBDA line : line # NoneLine)
    IN  [status_code |-> 200,
         lines |-> [n \in 1..Len(kept) |-> kept[n][1]],
         target_language |-> target_lang,
         detected_language |-> detected]

\* OverlayTranslationResponse(...): pydantic rejects a None among the lines
OverlayTranslationResponse(overlay, target_lang, detected) ==
    IF \E n \in 1..Len(overlay) : overlay[n] = NoneLine
    THEN HttpException(ExceptionStatus("ValidationError"))
    ELSE [status_code |-> 200,
          lines |-> [n \in 1..Len(overlay) |-> overlay[n][1]],
          target_language |-> target_lang,
          detected_language |-> detected]

\* an entry of the history
Event(op, texts, raise, net) ==
    [op |-> op, texts |-> texts, raise |-> raise, net |-> net]

\* what a provider-facing call gave back to the handler: whether it
\* returned, and the value it returned
Answer(outcome) == [ok |-> outcome.raise = "", value |-> outcome.value]

\* `except Exception as e2`: the inner handler sees an Exception, whatever
\* its class
Caught(raise) == IF raise = "" THEN "" ELSE "Exception"

\* mutant: the next chunk's batch call follows without the delay
AfterChunkNoDelay ==
    /\ i' = i + BATCH_SIZE
    /\ fb' = 0
    /\ pc' = IF i + BATCH_SIZE < Len(lines_to_translate) THEN "batch"
             ELSE "respond"

\* mutant: after the last chunk the handler waits on and never answers
AfterChunkHangs ==
    /\ i' = i + BATCH_SIZE
    /\ fb' = 0
    /\ pc' = IF i + BATCH_SIZE < Len(lines_to_translate) THEN "sleep"
             ELSE "hung"

\* where the loop goes after a chunk is finished
AfterChunk ==
    /\ i' = i + BATCH_SIZE
    /\ fb' = 0
    /\ pc' = IF i + BATCH_SIZE < Len(lines_to_translate) THEN "sleep"
             ELSE "respond"

\* a response counts against the failure budget unless it is the good one
Misbehaves(response, texts) == response # GoodResponse(texts)

PipeInit ==
    /\ DEEPL_API_KEY \in {"", "key"}
    /\ request \in Requests
    /\ pc = "start"
    /\ units = <<>>
    /\ overlay_lines = <<>>
    /\ lines_to_translate = <<>>
    /\ translate_indices = <<>>
    /\ i = 0
    /\ fb = 0
    /\ detected_lang = None
    /\ http = HttpException(0)
    /\ log = <<>>
    /\ failures = 0
    /\ answers = <<>>
    /\ parked = <<>>

\* the handler up to its first await: the key check and the first pass
Start ==
    /\ UNCHANGED <<langVars, fmtVars>>
    /\ pc = "start"
    /\ IF DEEPL_API_KEY = ""
       THEN /\ http' = HttpException(500)
            /\ pc' = "done"
            /\ UNCHANGED <<units, overlay_lines, lines_to_translate,
                           translate_indices>>
       ELSE \* input and indices are computed once, as the handler does
            \E input \in {InputUnits(request)} :
            \E indices \in {TranslateIndices(input, 1)} :
                /\ units' = input
                /\ overlay_lines' = InitialOverlay(input)
                /\ translate_indices' = indices
                /\ lines_to_translate' =
                       [m \in 1..Len(indices) |-> input[indices[m]].text]
                /\ pc' = IF indices = <<>> THEN "respond" ELSE "batch"
                /\ UNCHANGED http
    /\ UNCHANGED <<DEEPL_API_KEY, parked, answers, request, i, fb, detected_lang, log,
                   failures>>

\* await asyncio.sleep(0.5) before every chunk but the first
Sleep ==
    /\ UNCHANGED <<langVars, fmtVars>>
    /\ pc = "sleep"
    /\ log' = Append(log, Event("sleep", <<>>, "", 0))
    /\ pc' = "batch"
    /\ UNCHANGED <<DEEPL_API_KEY, parked, answers, request, units, overlay_lines, lines_to_translate,
                   translate_indices, i, fb, detected_lang, http,
                   failures>>

\* mutant: the per-item fallback runs after every batch call, failed or not
BatchCallThenFallback ==
    /\ UNCHANGED <<langVars, fmtVars>>
    /\ pc = "batch"
    /\ LET batch == Chunk(lines_to_translate, i)
           batch_indices == Chunk(translate_indices, i)
       IN  \E response \in ProviderResponses(batch) :
             /\ Misbehaves(response, batch) => failures < MaxFailures
             /\ failures' = IF Misbehaves(response, batch) THEN failures + 1
                            ELSE failures
             /\ LET outcome == translate_batch_sync(batch, request.target_lang,
                                   request.source_lang, DEEPL_API_KEY, response)
                IN  /\ log' = Append(log, Event("batch", batch, outcome.raise,
                                                outcome.net))
                    /\ answers' = Append(answers, Answer(outcome))
                    /\ overlay_lines' =
                           IF outcome.raise = ""
                           THEN ZipAssign(overlay_lines, units, outcome.value,
                                          batch_indices, SyncedBranch(request))
                           ELSE overlay_lines
                    /\ detected_lang' =
                           IF outcome.raise = ""
                           THEN DetectedAfter(detected_lang, outcome.value)
                           ELSE detected_lang
                    /\ pc' = "fallback"
                    /\ fb' = 1
                    /\ UNCHANGED i
    /\ UNCHANGED <<DEEPL_API_KEY, parked, request, units, lines_to_translate,
                   translate_indices, http>>

\* the batch call of the current chunk and what follows it up to the next
\* await: the results are zipped into overlay_lines, or the fallback starts
BatchCall ==
    /\ UNCHANGED <<langVars, fmtVars>>
    /\ pc = "batch"
    /\ LET batch == Chunk(lines_to_translate, i)
           batch_indices == Chunk(translate_indices, i)
       IN  \E response \in ProviderResponses(batch) :
             /\ Misbehaves(response, batch) => failures < MaxFailures
             /\ failures' = IF Misbehaves(response, batch) THEN failures + 1
                            ELSE failures
             /\ LET outcome == translate_batch_sync(batch, request.target_lang,
                                   request.source_lang, DEEPL_API_KEY, response)
                IN  /\ log' = Append(log, Event("batch", batch, outcome.raise,
                                                outcome.net))
                    /\ answers' = Append(answers, Answer(outcome))
                    /\ IF outcome.raise = ""
                       THEN /\ overlay_lines' =
                                   ZipAssign(overlay_lines, units,
                                             outcome.value, batch_indices,
                                             SyncedBranch(request))
                            /\ detected_lang' =
                                   DetectedAfter(detected_lang, outcome.value)
                            /\ AfterChunk
                       ELSE /\ pc' = "fallback"
                            /\ fb' = 1
                            /\ UNCHANGED <<overlay_lines, detected_lang, i>>
    /\ UNCHANGED <<DEEPL_API_KEY, parked, request, units, lines_to_translate,
                   translate_indices, http>>

\* one iteration of the fallback loop: the single-unit call for the unit at
\* position fb of the chunk, and the OverlayLine it leaves
FallbackCall ==
    /\ UNCHANGED <<langVars, fmtVars>>
    /\ pc = "fallback"
    /\ LET batch == Chunk(lines_to_translate, i)
           batch_indices == Chunk(translate_indices, i)
           text == batch[fb]
           idx == batch_indices[fb]
           unit == units[idx]
       IN  \E response \in ProviderResponses(<<text>>) :
             LET outcome == translate_lyrics_sync(text, request.target_lang,
                                request.source_lang, DEEPL_API_KEY, response)
                 counted == outcome.net > 0 /\ Misbehaves(response, <<text>>)
             IN  /\ counted => failures < MaxFailures
                 /\ answers' = Append(answers, Answer(outcome))
                 /\ failures' = IF counted THEN failures + 1 ELSE failures
                 /\ log' = Append(log, Event("single", <<text>>,
                                             Caught(outcome.raise),
                                             outcome.net))
                 /\ overlay_lines' =
                        [overlay_lines EXCEPT ![idx] =
                            <<FallbackLine(unit, text, outcome,
                                           SyncedBranch(request))>>]
                 /\ IF fb < Len(batch)
                    THEN /\ fb' = fb + 1
                         /\ UNCHANGED <<i, pc>>
                    ELSE AfterChunk
    /\ UNCHANGED <<DEEPL_API_KEY, parked, request, units, lines_to_translate,
                   translate_indices, detected_lang, http>>

\* return OverlayTranslationResponse(...), or the except clause it ends in
Respond ==
    /\ UNCHANGED <<langVars, fmtVars>>
    /\ pc = "respond"
    /\ http' = OverlayTranslationResponse(overlay_lines, request.target_lang,
                                          detected_lang)
    /\ pc' = "done"
    /\ UNCHANGED <<DEEPL_API_KEY, parked, answers, request, units, overlay_lines, lines_to_translate,
                   translate_indices, i, fb, detected_lang, log,
                   failures>>

\* the translator and the formatter at rest
LangIdle ==
    /\ translator = None
    /\ redis = <<>>
    /\ hash_seed = 0
    /\ call = None
    /\ call_result = None
    /\ tpc = "idle"
    /\ redis_installed = TRUE
    /\ redis_before = <<>>
    /\ calls = 0
    /\ prev_call = None
    /\ prev_result = None

FmtIdle ==
    /\ lyrics = <<>>
    /\ max_segment_length = 0
    /\ doc = <<>>
    /\ passes = 0
    /\ segments = <<>>
    /\ segment_results = <<>>
    /\ reassembled = <<>>
    /\ fpc = "idle"

Init == PipeInit /\ LangIdle /\ FmtIdle

Next == Start \/ Sleep \/ BatchCall \/ FallbackCall \/ Respond

Spec == Init /\ [][Next]_vars

\* the event loop resumes the handler whenever its await has completed: a
\* provider call returns or times out (timeout=30), a sleep ends
SpecLive == Init /\ [][Next]_vars /\ WF_vars(Next)

-----------------------------------------------------------------------------
(* Two /translate-lines requests on one event loop: each coroutine keeps    *)
(* its locals in its own frame; the loop runs one of them between awaits    *)

\* the locals of the running handler
Frame ==
    [request |-> request, pc |-> pc, units |-> units,
     overlay_lines |-> overlay_lines,
     lines_to_translate |-> lines_to_translate,
     translate_indices |-> translate_indices, i |-> i, fb |-> fb,
     detected_lang |-> detected_lang, http |-> http, log |-> log,
     failures |-> failures, answers |-> answers]

\* the frame of a handler that has not started
NewFrame(req) ==
    [request |-> req, pc |-> "start", units |-> <<>>, overlay_lines |-> <<>>,
     lines_to_translate |-> <<>>, translate_indices |-> <<>>, i |-> 0,
     fb |-> 0, detected_lang |-> None, http |-> HttpException(0),
     log |-> <<>>, failures |-> 0, answers |-> <<>>]

\* a switch that leaves detected_lang where it is, as a module-level
\* variable would be
SwitchSharingDetected ==
    /\ parked # <<>>
    /\ parked' = <<Frame>>
    /\ request' = parked[1].request
    /\ pc' = parked[1].pc
    /\ units' = parked[1].units
    /\ overlay_lines' = parked[1].overlay_lines
    /\ lines_to_translate' = parked[1].lines_to_translate
    /\ translate_indices' = parked[1].translate_indices
    /\ i' = parked[1].i
    /\ fb' = parked[1].fb
    /\ http' = parked[1].http
    /\ log' = parked[1].log
    /\ failures' = parked[1].failures
    /\ answers' = parked[1].answers
    /\ UNCHANGED <<DEEPL_API_KEY, detected_lang, langVars, fmtVars>>

\* the running handler is suspended at its await and the other one resumes
\* with its own locals; DEEPL_API_KEY is the module's
Switch ==
    /\ parked # <<>>
    /\ parked' = <<Frame>>
    /\ request' = parked[1].request
    /\ pc' = parked[1].pc
    /\ units' = parked[1].units
    /\ overlay_lines' = parked[1].overlay_lines
    /\ lines_to_translate' = parked[1].lines_to_translate
    /\ translate_indices' = parked[1].translate_indices
    /\ i' = parked[1].i
    /\ fb' = parked[1].fb
    /\ detected_lang' = parked[1].detected_lang
    /\ http' = parked[1].http
    /\ log' = parked[1].log
    /\ failures' = parked[1].failures
    /\ answers' = parked[1].answers
    /\ UNCHANGED <<DEEPL_API_KEY, langVars, fmtVars>>

\* requests of two chunks, and short requests to run beside them
LongRequests ==
    {OverlayTranslationRequest(MaxLines, 0, synced, <<"es", None>>) :
         synced \in BOOLEAN}
ShortRequests ==
    {OverlayTranslationRequest(2, 0, FALSE, <<"es", None>>),
     OverlayTranslationRequest(2, 2, TRUE, <<"es", None>>),
     OverlayTranslationRequest(1, 0, TRUE, <<"ES", "xx">>)}

\* the long request meets a provider that keeps its contract (its budget of
\* misbehaving calls is spent); the short one meets any provider
ConcurrentInit ==
    /\ DEEPL_API_KEY = "key"
    /\ request \in LongRequests
    /\ pc = "start"
    /\ units = <<>>
    /\ overlay_lines = <<>>
    /\ lines_to_translate = <<>>
    /\ translate_indices = <<>>
    /\ i = 0
    /\ fb = 0
    /\ detected_lang = None
    /\ http = HttpException(0)
    /\ log = <<>>
    /\ failures = MaxFailures
    /\ answers = <<>>
    /\ parked \in {<<NewFrame(req)>> : req \in ShortRequests}

InitConcurrent == ConcurrentInit /\ LangIdle /\ FmtIdle

NextConcurrent ==
    Start \/ Sleep \/ BatchCall \/ FallbackCall \/ Respond \/ Switch

SpecConcurrent == InitConcurrent /\ [][NextConcurrent]_vars

-----------------------------------------------------------------------------
(* One translate_lyrics call, swept over the spellings of a language code *)

\* largest hash seed explored
MaxSeed == 1

\* the handler at rest
PipeIdle ==
    /\ DEEPL_API_KEY = ""
    /\ request = None
    /\ pc = "idle"
    /\ units = <<>>
    /\ overlay_lines = <<>>
    /\ lines_to_translate = <<>>
    /\ translate_indices = <<>>
    /\ i = 0
    /\ fb = 0
    /\ detected_lang = None
    /\ http = HttpException(0)
    /\ log = <<>>
    /\ failures = 0
    /\ answers = <<>>
    /\ parked = <<>>

\* every code of the table as written and in lower case, mixed-case
\* spellings, codes outside the table, and the empty string
LanguageCodes ==
    SUPPORTED_LANGUAGES \cup {p[1] : p \in UpperPairs}
        \cup {"XX", "INVALID", "ENG", ""}

\* the arguments of translate_lyrics(text, target_lang, source_lang)
TranslateArgs(text, target_lang, source_lang) ==
    [text |-> text, target_lang |-> target_lang, source_lang |-> source_lang]

\* every target against a few sources, and every source against a few targets
LanguageCalls ==
    {TranslateArgs(<<"a">>, t, s) :
         t \in LanguageCodes, s \in {None, "", "EN", "en", "xx"}}
    \cup {TranslateArgs(<<"a">>, t, s) :
              t \in {"ES", "es", "XX", ""}, s \in LanguageCodes}

\* a result an earlier call left in Redis under this call's key
EarlierTranslation(args) ==
    [original_text |-> args.text,
     translated_text |-> <<"$">> \o args.text,
     detected_language |-> DetectedLanguage,
     target_language |-> args.target_lang,
     confidence |-> "high"]

\* Redis holding one entry
StoreWith(key, value) == CacheSet(NoStore, key, value, TRUE)

LangInit ==
    /\ translator \in {DeepLTranslator("key", TRUE),
                       DeepLTranslator("key", FALSE)}
    /\ hash_seed \in 0..MaxSeed
    /\ call \in LanguageCalls
    /\ redis \in {NoStore,
                  StoreWith(CacheKey(hash_seed, call.text, call.target_lang,
                                     call.source_lang),
                            EarlierTranslation(call))}
    /\ call_result = None
    /\ tpc = "ready"
    /\ redis_installed = TRUE
    /\ redis_before = redis
    /\ calls = 0
    /\ prev_call = None
    /\ prev_result = None

\* translator.translate_lyrics(text, target_lang, source_lang), start to end
TranslateOnce ==
    /\ tpc = "ready"
    /\ \E response \in ProviderResponses(<<call.text>>), redis_up \in BOOLEAN :
          LET returned ==
                  translate_lyrics(translator, call.text, call.target_lang,
                                   call.source_lang, redis,
                                   [seed |-> hash_seed, redis_up |-> redis_up,
                                    response |-> response])
          IN  /\ call_result' = returned
              /\ redis' = returned.store
    /\ tpc' = "done"
    /\ UNCHANGED <<translator, hash_seed, call, redis_installed, redis_before,
                   calls, prev_call, prev_result, pipeVars, fmtVars>>

InitLanguages == LangInit /\ PipeIdle /\ FmtIdle

NextLanguages == TranslateOnce

SpecLanguages == InitLanguages /\ [][NextLanguages]_vars

-----------------------------------------------------------------------------
(* A translator with its cache: construction, then calls one after another *)

\* translate_lyrics calls made by one translator
MaxCalls == 2

CacheTexts == {<<"a">>, <<"b">>}

\* (target_lang, source_lang) of the calls
CacheLanguages == {<<"ES", None>>, <<"es", "EN">>}

\* requests.post raised requests.exceptions.Timeout, a RequestException
NetworkTimeout == [NetworkFailure EXCEPT !.exception = "Timeout"]

\* what the provider answers: a translation, 429, another error status, or
\* no answer at all
CacheResponses(texts) ==
    {GoodResponse(texts), HttpError(429), HttpError(500), NetworkFailure,
     NetworkTimeout}

\* what Redis may hold when the translator is built: nothing, or under the
\* key of the first text a result stored earlier, text that is not JSON, or
\* bytes that are not UTF-8
InitialStores(seed) ==
    LET args == TranslateArgs(<<"a">>, "ES", None)
        key == CacheKey(seed, args.text, args.target_lang, args.source_lang)
    IN  {NoStore,
         StoreWith(key, EarlierTranslation(args)),
         [k \in {key} |-> Garbage],
         [k \in {key} |-> NotUtf8]}

CacheInit ==
    /\ translator = None
    /\ redis_installed \in BOOLEAN
    /\ hash_seed \in 0..MaxSeed
    /\ redis \in InitialStores(hash_seed)
    /\ redis_before = redis
    /\ call = None
    /\ call_result = None
    /\ tpc = "new"
    /\ calls = 0
    /\ prev_call = None
    /\ prev_result = None

\* translator = DeepLTranslator(api_key, use_cache)
Construct ==
    /\ tpc = "new"
    /\ \E use_cache \in BOOLEAN :
          LET raise == DeepLTranslatorRaises(use_cache, redis_installed)
          IN  IF raise # ""
              THEN /\ tpc' = "failed"
                   /\ call_result' = Raised(raise, 0, 0, redis)
                   /\ UNCHANGED translator
              ELSE /\ tpc' = "ready"
                   /\ translator' = DeepLTranslator("key", use_cache)
                   /\ UNCHANGED call_result
    /\ UNCHANGED <<redis, hash_seed, call, redis_installed, redis_before,
                   calls, prev_call, prev_result, pipeVars, fmtVars>>

\* translator.translate_lyrics(text, target_lang, source_lang), one more call
\* of the same translator in the same process
CachedTranslate ==
    /\ tpc \in {"ready", "done"}
    /\ calls < MaxCalls
    /\ \E text \in CacheTexts, langs \in CacheLanguages, redis_up \in BOOLEAN :
          \E response \in CacheResponses(<<text>>) :
             LET returned ==
                     translate_lyrics(translator, text, langs[1], langs[2],
                                      redis,
                                      [seed |-> hash_seed,
                                       redis_up |-> redis_up,
                                       response |-> response])
             IN  /\ call' = [text |-> text, target_lang |-> langs[1],
                             source_lang |-> langs[2], redis_up |-> redis_up,
                             response |-> response]
                 /\ call_result' = returned
                 /\ redis' = returned.store
    /\ prev_call' = call
    /\ prev_result' = call_result
    /\ redis_before' = redis
    /\ calls' = calls + 1
    /\ tpc' = "done"
    /\ UNCHANGED <<translator, hash_seed, redis_installed, pipeVars, fmtVars>>

InitCache == CacheInit /\ PipeIdle /\ FmtIdle

NextCache == Construct \/ CachedTranslate

SpecCache == InitCache /\ [][NextCache]_vars

-----------------------------------------------------------------------------
(* Processes and translators sharing one Redis: single calls, restarts,    *)
(* and translate_batch_lyrics                                              *)

\* texts handed to one translate_batch_lyrics call
MaxBatch == 2

\* "a" and "3" have the same hash() in the modelled range; "b" has another
ProcessTexts == {<<"a">>, <<"3">>, <<"b">>}

\* (target_lang, source_lang) of the calls
ProcessLanguages == {<<"ES", None>>, <<"ES", "EN">>}

\* what the provider answers: a translation or 429
ProcessResponses(texts) == {GoodResponse(texts), HttpError(429)}

BatchTexts == UNION {[1..n -> ProcessTexts] : n \in 0..MaxBatch}

\* a fresh process with a translator built, Redis empty and reachable
ProcessInit ==
    /\ translator \in {DeepLTranslator("key", TRUE),
                       DeepLTranslator("key", FALSE)}
    /\ redis_installed = TRUE
    /\ hash_seed \in 0..MaxSeed
    /\ redis = NoStore
    /\ redis_before = NoStore
    /\ call = None
    /\ call_result = None
    /\ tpc = "ready"
    /\ calls = 0
    /\ prev_call = None
    /\ prev_result = None

\* the process ends and another starts (hash() is seeded per process), or a
\* new translator is built in the same process; Redis keeps what it holds
Restart ==
    /\ tpc \in {"ready", "done"}
    /\ hash_seed' \in 0..MaxSeed
    /\ translator' \in {DeepLTranslator("key", TRUE),
                        DeepLTranslator("key", FALSE)}
    /\ tpc' = "ready"
    /\ UNCHANGED <<redis, call, call_result, redis_installed, redis_before,
                   calls, prev_call, prev_result, pipeVars, fmtVars>>

\* translator.translate_lyrics(text, target_lang, source_lang)
ProcessTranslate ==
    /\ tpc \in {"ready", "done"}
    /\ calls < MaxCalls
    /\ \E text \in ProcessTexts, langs \in ProcessLanguages :
          \E response \in ProcessResponses(<<text>>) :
             LET returned ==
                     translate_lyrics(translator, text, langs[1], langs[2],
                                      redis,
                                      [seed |-> hash_seed, redis_up |-> TRUE,
                                       response |-> response])
             IN  /\ call' = [text |-> text, target_lang |-> langs[1],
                             source_lang |-> langs[2], redis_up |-> TRUE,
                             response |-> response,
                             key |-> CacheKey(hash_seed, text, langs[1],
                                              langs[2])]
                 /\ call_result' = returned
                 /\ redis' = returned.store
    /\ prev_call' = call
    /\ prev_result' = call_result
    /\ redis_before' = redis
    /\ calls' = calls + 1
    /\ tpc' = "done"
    /\ UNCHANGED <<translator, hash_seed, redis_installed, pipeVars, fmtVars>>

\* translator.translate_batch_lyrics(texts, target_lang) of a translator
\* that has made no call yet; the provider refuses the texts at the
\* positions in `refused`
ProcessBatch ==
    /\ tpc = "ready"
    /\ calls = 0
    /\ \E texts \in BatchTexts :
          \E refused \in SUBSET (1..Len(texts)) :
             LET envs == [k \in 1..Len(texts) |->
                             [seed |-> hash_seed, redis_up |-> TRUE,
                              response |->
                                  IF k \in refused THEN HttpError(429)
                                  ELSE GoodResponse(<<texts[k]>>)]]
                 returned == translate_batch_lyrics(translator, texts, "ES",
                                                    redis, envs)
             IN  /\ call' = [texts |-> texts, target_lang |-> "ES",
                             refused |-> refused]
                 /\ call_result' = returned
                 /\ redis' = returned.store
    /\ redis_before' = redis
    /\ tpc' = "batched"
    /\ UNCHANGED <<translator, hash_seed, redis_installed, calls, prev_call,
                   prev_result, pipeVars, fmtVars>>

InitProcess == ProcessInit /\ PipeIdle /\ FmtIdle

NextProcess == Restart \/ ProcessTranslate \/ ProcessBatch

SpecProcess == InitProcess /\ [][NextProcess]_vars

-----------------------------------------------------------------------------
(* LyricFormatter (src/translation-library/lyric_formatter.py) *)

\* longest lyrics explored, in characters
MaxTextLen == 5
\* largest max_segment_length explored
MaxSegmentLength == 4

\* the characters of the explored lyrics
Alphabet == {"a", "b", " ", "\t", "\n"}

Texts == UNION {[1..n -> Alphabet] : n \in 0..MaxTextLen}

SegmentLengths == (-1)..MaxSegmentLength

Max(a, b) == IF a >= b THEN a ELSE b

\* where the leftmost match of  \n\s{least,}\n  that starts at position k
\* ends (0: no match starts at k); \s is greedy and gives characters back
\* until a "\n" can close the match, so the match reaches the last "\n" of
\* the whitespace run
BlankGapEnd(s, k, least) ==
    IF s[k] # "\n" THEN 0
    ELSE LET ends == {q \in (k + 1 + least)..Len(s) :
                         /\ s[q] = "\n"
                         /\ \A m \in (k + 1)..(q - 1) : s[m] \in Whitespace}
         IN  IF ends = {} THEN 0
             ELSE CHOOSE q \in ends : \A r \in ends : r <= q

\* re.split(r'\n\s*\n', s): scan from k, the current piece began at start
RECURSIVE ReSplit(_, _, _)
ReSplit(s, k, start) ==
    IF k > Len(s) THEN <<SubSeq(s, start, Len(s))>>
    ELSE LET q == BlankGapEnd(s, k, 0)
         IN  IF q > 0
             THEN <<SubSeq(s, start, k - 1)>> \o ReSplit(s, q + 1, q + 1)
             ELSE ReSplit(s, k + 1, start)

\* re.sub(r'\n\s+\n', '\n\n', s): scan from k
RECURSIVE ReSubBlankLines(_, _)
ReSubBlankLines(s, k) ==
    IF k > Len(s) THEN <<>>
    ELSE LET q == BlankGapEnd(s, k, 1)
         IN  IF q > 0
             THEN <<"\n", "\n">> \o ReSubBlankLines(s, q + 1)
             ELSE <<s[k]>> \o ReSubBlankLines(s, k + 1)

\* re.sub(r'[ \t]+', ' ', s): scan from k
RECURSIVE ReSubSpaces(_, _)
\* mutant: re.sub(r'[ \t]{2}', ' ', s), which halves a run instead of
\* collapsing it
ReSubSpacePairs(s, k) ==
    IF k > Len(s) THEN <<>>
    ELSE IF k < Len(s) /\ s[k] \in {" ", "\t"} /\ s[k + 1] \in {" ", "\t"}
    THEN <<" ">> \o ReSubSpaces(s, k + 2)
    ELSE <<s[k]>> \o ReSubSpaces(s, k + 1)

ReSubSpaces(s, k) ==
    IF k > Len(s) THEN <<>>
    ELSE IF s[k] \in {" ", "\t"}
    THEN IF k > 1 /\ s[k - 1] \in {" ", "\t"}
         THEN ReSubSpaces(s, k + 1)
         ELSE <<" ">> \o ReSubSpaces(s, k + 1)
    ELSE <<s[k]>> \o ReSubSpaces(s, k + 1)

\* LyricFormatter.preprocess_lyrics
preprocess_lyrics(s) == Strip(ReSubBlankLines(ReSubSpaces(s, 1), 1))

\* the loop over the lines of a long segment: lines from position k on,
\* current_segment as it stands
RECURSIVE SplitLong(_, _, _, _)
\* mutant: the flush test looks at the next line alone, not at the buffer
\* with the line appended
SplitLongLineAlone(lines, k, current_segment, max_length) ==
    IF k > Len(lines)
    THEN IF current_segment # <<>> THEN <<Strip(current_segment)>> ELSE <<>>
    ELSE IF Len(lines[k]) > max_length /\ current_segment # <<>>
    THEN <<Strip(current_segment)>>
             \o SplitLong(lines, k + 1, lines[k], max_length)
    ELSE SplitLong(lines, k + 1, current_segment \o lines[k] \o <<"\n">>,
                   max_length)

\* mutant: after a flush the buffer restarts empty, the line is not kept
SplitLongRestartsEmpty(lines, k, current_segment, max_length) ==
    IF k > Len(lines)
    THEN IF current_segment # <<>> THEN <<Strip(current_segment)>> ELSE <<>>
    ELSE IF /\ Len(current_segment \o lines[k]) > max_length
            /\ current_segment # <<>>
    THEN <<Strip(current_segment)>>
             \o SplitLong(lines, k + 1, <<>>, max_length)
    ELSE SplitLong(lines, k + 1, current_segment \o lines[k] \o <<"\n">>,
                   max_length)

SplitLong(lines, k, current_segment, max_length) ==
    IF k > Len(lines)
    THEN IF current_segment # <<>> THEN <<Strip(current_segment)>> ELSE <<>>
    ELSE IF /\ Len(current_segment \o lines[k]) > max_length
            /\ current_segment # <<>>
    THEN <<Strip(current_segment)>>
             \o SplitLong(lines, k + 1, lines[k], max_length)
    ELSE SplitLong(lines, k + 1, current_segment \o lines[k] \o <<"\n">>,
                   max_length)

\* the loop over the segments re.split returned
RECURSIVE SplitEach(_, _, _)
\* mutant: a segment that fits is trimmed before it is emitted
SplitEachTrimmed(paragraphs, n, max_length) ==
    IF n > Len(paragraphs) THEN <<>>
    ELSE (IF Len(paragraphs[n]) <= max_length
          THEN <<Strip(paragraphs[n])>>
          ELSE SplitLong(SplitOn(paragraphs[n], "\n"), 1, <<>>, max_length))
         \o SplitEach(paragraphs, n + 1, max_length)

SplitEach(paragraphs, n, max_length) ==
    IF n > Len(paragraphs) THEN <<>>
    ELSE (IF Len(paragraphs[n]) <= max_length
          THEN <<paragraphs[n]>>
          ELSE SplitLong(SplitOn(paragraphs[n], "\n"), 1, <<>>, max_length))
         \o SplitEach(paragraphs, n + 1, max_length)

\* mutant: a text that fits as a whole is returned as one segment, without
\* looking for paragraph breaks
SplitWholeIfFits(s, max_length) ==
    IF Len(s) <= max_length THEN <<s>>
    ELSE SplitEach(ReSplit(s, 1, 1), 1, max_length)

\* LyricFormatter.split_into_segments
split_into_segments(s, max_length) ==
    SplitEach(ReSplit(s, 1, 1), 1, max_length)

FmtInit ==
    /\ lyrics \in Texts
    /\ max_segment_length \in SegmentLengths
    /\ doc = lyrics
    /\ passes = 0
    /\ segments = <<>>
    /\ segment_results = <<>>
    /\ reassembled = <<>>
    /\ fpc = "text"

\* text = formatter.preprocess_lyrics(text)
Preprocess ==
    /\ fpc = "text"
    /\ passes < 2
    /\ doc' = preprocess_lyrics(doc)
    /\ passes' = passes + 1
    /\ UNCHANGED <<lyrics, max_segment_length, segments, segment_results,
                   reassembled, fpc>>
    /\ UNCHANGED <<pipeVars, langVars>>

\* segments = formatter.split_into_segments(text, max_segment_length)
Split ==
    /\ fpc = "text"
    /\ segments' = split_into_segments(doc, max_segment_length)
    /\ fpc' = "split"
    /\ UNCHANGED <<lyrics, max_segment_length, doc, passes, segment_results,
                   reassembled>>
    /\ UNCHANGED <<pipeVars, langVars>>

\* the result dict of a segment the provider translated
SegmentTranslation(segment) ==
    translate_lyrics_sync(segment, "ES", None, "key",
                          GoodResponse(<<segment>>)).value

\* mutant: the texts joined with a single line break
ReassembleWithLineBreak(results) ==
    Join([n \in 1..Len(results) |-> results[n].translated_text], <<"\n">>)

\* LyricFormatter.reassemble_segments
reassemble_segments(results) ==
    Join([n \in 1..Len(results) |-> results[n].translated_text],
         <<"\n", "\n">>)

\* translated = formatter.reassemble_segments(translations), the
\* translations being those of the segments, in order
Reassemble ==
    /\ fpc = "split"
    /\ LET results == [n \in 1..Len(segments) |->
                          SegmentTranslation(segments[n])]
       IN  /\ segment_results' = results
           /\ reassembled' = reassemble_segments(results)
    /\ fpc' = "reassembled"
    /\ UNCHANGED <<lyrics, max_segment_length, doc, passes, segments>>
    /\ UNCHANGED <<pipeVars, langVars>>

InitFormat == FmtInit /\ PipeIdle /\ LangIdle

NextFormat == Preprocess \/ Split \/ Reassemble

SpecFormat == InitFormat /\ [][NextFormat]_vars

-----------------------------------------------------------------------------
(* POST /translate: translate_lyrics (src/backend/main.py) *)

\* max_segment_length=1000 of the handler's split_into_segments call
MAX_SEGMENT == 1000

TranslationRequest(text, target_lang, source_lang) ==
    [lyrics |-> text, target_lang |-> target_lang, source_lang |-> source_lang]

\* lyrics of no, one, two and three paragraphs, tidy or not
PlainLyrics ==
    {<<>>,
     <<" ", "\n">>,
     <<"a">>,
     <<"a", "\n", "b">>,
     <<"a", "\n", "\n", "b">>,
     <<" ", "a", " ", " ", "b", "\n", "\n", "\n", "b", " ">>,
     <<"a", "\n", "\n", "b", "\n", "\n", "a">>,
     <<"b", "\n", "a", "\n", " ", "\n", "a", "\n", "\n", "b", "a">>}

\* (target_lang, source_lang) of the requests: in the table, outside it,
\* and the empty target
PlainLanguages ==
    {<<"ES", None>>, <<"es", "EN">>, <<"XX", "EN">>, <<"ES", "xx">>,
     <<"", None>>}

TranslationRequests ==
    {TranslationRequest(text, langs[1], langs[2]) :
         text \in PlainLyrics, langs \in PlainLanguages}

\* every exception answered with 500
TranslateStatusAlways500(exception) == 500

\* the except clauses that end the handler: exception -> HTTP status
TranslateExceptionStatus(exception) ==
    CASE exception = "InvalidLanguageError" -> 400
      [] exception = "RateLimitError" -> 429
      [] exception = "TranslationError" -> 500
      [] OTHER -> 500

\* TranslationResponse(...) of the handler
TranslationResponse(translated_lyrics, original_lyrics, target_lang, detected) ==
    [status_code |-> 200,
     translated_lyrics |-> translated_lyrics,
     original_lyrics |-> original_lyrics,
     target_language |-> target_lang,
     detected_language |-> detected]

\* the last statements of the handler, once the loop is over
TranslateReturn(results, detected) ==
    /\ reassembled' = reassemble_segments(results)
    /\ http' = TranslationResponse(reassemble_segments(results),
                                   request.lyrics, request.target_lang,
                                   detected)
    /\ pc' = "done"

TranslateInit ==
    /\ DEEPL_API_KEY \in {"", "key"}
    /\ request \in TranslationRequests
    /\ pc = "start"
    /\ units = <<>>
    /\ overlay_lines = <<>>
    /\ lines_to_translate = <<>>
    /\ translate_indices = <<>>
    /\ i = 0
    /\ fb = 0
    /\ detected_lang = None
    /\ http = HttpException(0)
    /\ log = <<>>
    /\ failures = 0
    /\ answers = <<>>
    /\ parked = <<>>
    /\ lyrics = request.lyrics
    /\ max_segment_length = MAX_SEGMENT
    /\ doc = <<>>
    /\ passes = 0
    /\ segments = <<>>
    /\ segment_results = <<>>
    /\ reassembled = <<>>
    /\ fpc = "idle"

\* the handler up to its first await: the key check, preprocess_lyrics and
\* split_into_segments
TranslateStart ==
    /\ pc = "start"
    /\ IF DEEPL_API_KEY = ""
       THEN /\ http' = HttpException(500)
            /\ pc' = "done"
            /\ UNCHANGED <<doc, passes, segments, reassembled>>
       ELSE LET formatted_lyrics == preprocess_lyrics(request.lyrics)
                split == split_into_segments(formatted_lyrics,
                                             max_segment_length)
            IN  /\ doc' = formatted_lyrics
                /\ passes' = 1
                /\ segments' = split
                /\ IF split = <<>>
                   THEN TranslateReturn(<<>>, detected_lang)
                   ELSE /\ pc' = "segment"
                        /\ UNCHANGED <<http, reassembled>>
    /\ UNCHANGED <<DEEPL_API_KEY, parked, answers, request, units, overlay_lines,
                   lines_to_translate, translate_indices, i, fb,
                   detected_lang, log, failures, lyrics, max_segment_length,
                   segment_results, fpc, langVars>>

\* one turn of `for segment in segments`: the awaited translate_lyrics_sync
\* call and what follows it up to the next await or the end of the handler
TranslateSegment ==
    /\ pc = "segment"
    /\ LET segment == segments[i + 1]
       IN  \E response \in ProviderResponses(<<segment>>) :
              LET returned ==
                      translate_lyrics_sync(segment, request.target_lang,
                                            request.source_lang,
                                            DEEPL_API_KEY, response)
                  results == Append(segment_results, returned.value)
                  detected == IF Falsy(detected_lang)
                              THEN returned.value.detected_language
                              ELSE detected_lang
              IN  /\ answers' = Append(answers, Answer(returned))
                  /\ log' = Append(log, Event("single", <<segment>>,
                                              returned.raise, returned.net))
                  /\ failures' = failures
                                     + IF Misbehaves(response, <<segment>>)
                                       THEN 1 ELSE 0
                  /\ IF returned.raise # ""
                     THEN /\ http' = HttpException(
                                  TranslateExceptionStatus(returned.raise))
                          /\ pc' = "done"
                          /\ UNCHANGED <<segment_results, detected_lang, i,
                                         reassembled>>
                     ELSE /\ segment_results' = results
                          /\ detected_lang' = detected
                          /\ i' = i + 1
                          /\ IF i + 1 = Len(segments)
                             THEN TranslateReturn(results, detected)
                             ELSE /\ pc' = "segment"
                                  /\ UNCHANGED <<http, reassembled>>
    /\ UNCHANGED <<DEEPL_API_KEY, parked, request, units, overlay_lines,
                   lines_to_translate, translate_indices, fb, lyrics,
                   max_segment_length, doc, passes, segments, fpc, langVars>>

InitTranslate == TranslateInit /\ LangIdle

NextTranslate == TranslateStart \/ TranslateSegment

SpecTranslate == InitTranslate /\ [][NextTranslate]_vars

-----------------------------------------------------------------------------
(* What the claims speak about, computed from the request alone *)

\* a text of whitespace only (or empty)
IsBlank(text) == \A k \in 1..Len(text) : text[k] \in Whitespace

\* the input line list: the synced lines, or the lines of the plain lyrics
\* (which the handler strips before anything else)
InputTexts ==
    IF request.lines # <<>>
    THEN [n \in 1..Len(request.lines) |-> request.lines[n].text]
    ELSE LET split == SplitOn(request.lyrics, "\n")
         IN  [n \in 1..Len(split) |-> Strip(split[n])]

InputTimestamp(n) ==
    IF request.lines # <<>> THEN request.lines[n].timestamp_ms ELSE NoTimestamp

\* the non-blank units in input order
RECURSIVE NonBlankFrom(_, _)
NonBlankFrom(texts, n) ==
    IF n > Len(texts) THEN <<>>
    ELSE (IF IsBlank(texts[n]) THEN <<>> ELSE <<texts[n]>>)
         \o NonBlankFrom(texts, n + 1)

NonBlankUnits == NonBlankFrom(InputTexts, 1)

\* positions of the events of one kind in the history
EventsOf(op) == {p \in 1..Len(log) : log[p].op = op}

\* the batch calls issued so far, in order
RECURSIVE BatchEventsFrom(_)
BatchEventsFrom(p) ==
    IF p > Len(log) THEN <<>>
    ELSE (IF log[p].op = "batch" THEN <<log[p]>> ELSE <<>>)
         \o BatchEventsFrom(p + 1)

BatchEvents == BatchEventsFrom(1)

CeilDiv(a, b) == (a + b - 1) \div b

\* the handler has answered with a result list
ReturnedResult == pc = "done" /\ http.status_code = 200

\* the handler has run its loop (the key is configured)
LoopOver == pc \in {"respond", "done"} /\ DEEPL_API_KEY # ""

\* the batch call at position p of the history failed otherwise than by 429
FailedNot429(p) ==
    log[p].op = "batch" /\ log[p].raise \notin {"", "RateLimitError"}

-----------------------------------------------------------------------------
(* C1..C7: the line pipeline *)

\* C1: whenever the line pipeline returns a result, the output list is as
\* long as the input line list, and entry n carries line n's timestamp and,
\* for a non-blank line n, line n's text as original text.
C1_OrderAndLength ==
    ReturnedResult =>
        LET texts == InputTexts
        IN  /\ Len(http.lines) = Len(texts)
            /\ \A n \in 1..Len(texts) :
                  /\ http.lines[n].timestamp_ms = InputTimestamp(n)
                  /\ ~IsBlank(texts[n]) => http.lines[n].original = texts[n]

\* C1 witness: a result for synced lines with blank lines among them, after
\* one batch call failed, one succeeded and one single-unit call failed
C1_Witness ==
    /\ ReturnedResult
    /\ request.lines # <<>>
    /\ \E n \in 1..Len(request.lines) : IsBlank(request.lines[n].text)
    /\ \E p \in EventsOf("batch") : log[p].raise # ""
    /\ \E p \in EventsOf("batch") : log[p].raise = ""
    /\ \E p \in EventsOf("single") : log[p].raise # ""

\* C2: after a batch call that failed otherwise than by 429, the next calls
\* are the single-unit calls of that chunk's units, one each and in chunk
\* order, before any delay or batch call; all of them are issued even when
\* one fails; and the unit of a failed single-unit call has its original
\* text as translated text.
C2_FallbackPerUnit ==
    \A p \in 1..Len(log) :
        FailedNot429(p) =>
            LET texts == log[p].texts
                count == Len(texts)
                input == InputTexts
            IN  /\ \A q \in 1..count :
                      p + q <= Len(log) =>
                          /\ log[p + q].op = "single"
                          /\ log[p + q].texts = <<texts[q]>>
                          /\ log[p + q].raise # "" =>
                                \A n \in 1..Len(input) :
                                    input[n] = texts[q] =>
                                        /\ overlay_lines[n] # NoneLine
                                        /\ overlay_lines[n][1].translated
                                               = texts[q]
                                        /\ overlay_lines[n][1].original
                                               = texts[q]
                /\ p + count < Len(log) => log[p + count + 1].op # "single"
                /\ pc \in {"sleep", "batch", "respond", "done"} =>
                       p + count <= Len(log)

\* C2 witness: a finished request in which a chunk of several units fell
\* back after a non-429 failure, one of its single-unit calls failed and a
\* later one of the same chunk succeeded
C2_Witness ==
    /\ pc = "done"
    /\ \E p \in 1..Len(log) :
          /\ FailedNot429(p)
          /\ \E q, r \in 1..Len(log[p].texts) :
                /\ q < r
                /\ p + r <= Len(log)
                /\ log[p + q].raise # ""
                /\ log[p + r].raise = ""

\* C3 (as claimed): a batch call answered 429 is the last provider call of
\* the request, and the request ends with HTTP 429 (stated for requests in
\* supported languages, where no other error is in play).
C3_RateLimitPropagates ==
    \A p \in 1..Len(log) :
        (/\ log[p].op = "batch"
         /\ log[p].raise = "RateLimitError"
         /\ ~ValidateLanguageRaises(request.target_lang)
         /\ ~ValidateLanguageRaises(request.source_lang)) =>
            /\ Len(log) = p
            /\ pc = "done" => http.status_code = 429

\* C4: the batch calls carry the non-blank units in input order, cut into
\* consecutive chunks of BATCH_SIZE units (the last one may be shorter, none
\* is empty), and once the loop is over there are ceil(N / BATCH_SIZE) of
\* them, whatever happened to earlier chunks.
C4_Chunking ==
    LET batches == BatchEvents
        nonblank == NonBlankUnits
    IN  /\ \A c \in 1..Len(batches) :
              /\ batches[c].texts # <<>>
              /\ Len(batches[c].texts) <= BATCH_SIZE
              /\ batches[c].texts =
                     SubSeq(nonblank, (c - 1) * BATCH_SIZE + 1,
                            Min(c * BATCH_SIZE, Len(nonblank)))
        /\ Len(batches) <= CeilDiv(Len(nonblank), BATCH_SIZE)
        /\ LoopOver => Len(batches) = CeilDiv(Len(nonblank), BATCH_SIZE)

\* C4 witness: a finished request of two chunks, a full one that fell back
\* and a shorter one, with blank lines skipped on the way
C4_Witness ==
    LET batches == BatchEvents
    IN  /\ pc = "done"
        /\ Len(batches) = 2
        /\ batches[1].raise # ""
        /\ Len(batches[1].texts) = BATCH_SIZE
        /\ Len(batches[2].texts) < BATCH_SIZE
        /\ Len(InputTexts) > Len(NonBlankUnits)

\* C5: a delay stands immediately before every batch call but the first and
\* nowhere else: it follows the end of the previous chunk (its successful
\* batch call, or the single-unit call of its last unit), so a finished
\* request with k batch calls has made k - 1 delays.
C5_DelayBetweenChunks ==
    LET batches == EventsOf("batch")
        sleeps == EventsOf("sleep")
    IN  /\ \A p \in batches :
              IF \E q \in batches : q < p
              THEN log[p - 1].op = "sleep"
              ELSE p = 1
        /\ \A p \in sleeps :
              /\ p > 1
              /\ \/ log[p - 1].op = "batch" /\ log[p - 1].raise = ""
                 \/ /\ log[p - 1].op = "single"
                    /\ \E q \in batches :
                          /\ q < p
                          /\ log[q].raise # ""
                          /\ q + Len(log[q].texts) = p - 1
                          /\ log[p - 1].texts
                                 = <<log[q].texts[Len(log[q].texts)]>>
              /\ IF p < Len(log) THEN log[p + 1].op = "batch"
                 ELSE pc = "batch"
        /\ (LoopOver /\ batches # {}) =>
               Cardinality(sleeps) = Cardinality(batches) - 1
        /\ batches = {} => sleeps = {}

\* C5 witness: a finished request with two batch calls, the first chunk
\* having fallen back, and one delay
C5_Witness ==
    LET batches == BatchEvents
    IN  /\ pc = "done"
        /\ Len(batches) = 2
        /\ batches[1].raise # ""
        /\ Cardinality(EventsOf("sleep")) = 1

\* C6: no blank line is ever sent to the provider, no batch call is empty,
\* the entry of a blank line is empty on both sides, and a request of blank
\* lines only makes no provider call.
C6_BlankLinesNotSent ==
    LET texts == InputTexts
    IN  /\ \A p \in 1..Len(log) :
              /\ \A k \in 1..Len(log[p].texts) : ~IsBlank(log[p].texts[k])
              /\ log[p].op # "sleep" => log[p].texts # <<>>
        /\ (pc # "start" /\ DEEPL_API_KEY # "") =>
               /\ Len(overlay_lines) = Len(texts)
               /\ \A n \in 1..Len(texts) :
                     IsBlank(texts[n]) =>
                         overlay_lines[n] =
                             <<OverlayLine(<<>>, <<>>, InputTimestamp(n))>>
        /\ ReturnedResult =>
               \A n \in 1..Len(texts) :
                   IsBlank(texts[n]) =>
                       /\ http.lines[n].original = <<>>
                       /\ http.lines[n].translated = <<>>
        /\ (\A n \in 1..Len(texts) : IsBlank(texts[n])) => log = <<>>

\* C6 witness: a result for a request that mixes whitespace-only, empty and
\* non-blank lines, after provider calls were made
C6_Witness ==
    /\ ReturnedResult
    /\ request.lines # <<>>
    /\ \E n \in 1..Len(request.lines) : request.lines[n].text = <<" ">>
    /\ \E n \in 1..Len(request.lines) : request.lines[n].text = <<>>
    /\ EventsOf("batch") # {}
    /\ EventsOf("single") # {}

\* C7 (as claimed): with an unsupported target or source language the line
\* pipeline makes no network call and ends with the InvalidLanguage error
\* (HTTP 400), not with a result list.
C7_InvalidLanguageFailsFast ==
    (ValidateLanguageRaises(request.target_lang)
         \/ ValidateLanguageRaises(request.source_lang)) =>
        /\ \A p \in 1..Len(log) : log[p].net = 0
        /\ (pc = "done" /\ DEEPL_API_KEY # "") => http.status_code = 400

-----------------------------------------------------------------------------
(* C8: language validation in translate_lyrics *)

\* the code is a key of the supported-language table, letter case aside
InTable(code) ==
    \/ code \in SUPPORTED_LANGUAGES
    \/ \E p \in UpperPairs : p[1] = code /\ p[2] \in SUPPORTED_LANGUAGES

\* a source language was supplied
Supplied(source_lang) == ~Falsy(source_lang)

\* C8 (as claimed): a call whose target code, or whose supplied source code,
\* is not in the supported-language table (case-insensitively) raises
\* InvalidLanguageError without any cache lookup or network call; a call
\* whose codes are in the table never raises InvalidLanguageError.
C8_ValidationBeforeCacheAndNetwork ==
    tpc = "done" =>
        LET invalid == \/ ~InTable(call.target_lang)
                       \/ /\ Supplied(call.source_lang)
                          /\ ~InTable(call.source_lang)
        IN  IF invalid
            THEN /\ call_result.raise = "InvalidLanguageError"
                 /\ call_result.gets = 0
                 /\ call_result.net = 0
            ELSE call_result.raise # "InvalidLanguageError"

-----------------------------------------------------------------------------
(* C9, C10: what split_into_segments keeps of the text *)

\* str.split(): the maximal runs of non-whitespace characters, in order
RECURSIVE Words(_)
Words(s) ==
    LET t == LStrip(s)
    IN  IF t = <<>> THEN <<>>
        ELSE LET stops == {k \in 1..Len(t) : t[k] \in Whitespace}
                 k == IF stops = {} THEN Len(t) + 1
                      ELSE CHOOSE m \in stops : \A r \in stops : m <= r
             IN  <<SubSeq(t, 1, k - 1)>> \o Words(SubSeq(t, k, Len(t)))

\* the lines of all the segments, in order
RECURSIVE SegmentLines(_)
SegmentLines(segs) ==
    IF segs = <<>> THEN <<>>
    ELSE SplitOn(Head(segs), "\n") \o SegmentLines(Tail(segs))

\* the lines trimmed, the blank ones left out
RECURSIVE TrimmedLines(_)
TrimmedLines(lines) ==
    IF lines = <<>> THEN <<>>
    ELSE (IF IsBlank(Head(lines)) THEN <<>> ELSE <<Strip(Head(lines))>>)
         \o TrimmedLines(Tail(lines))

\* the text is one paragraph: no two line breaks with only whitespace between
OneParagraph(s) ==
    ~\E j, k \in 1..Len(s) :
        /\ j < k
        /\ s[j] = "\n"
        /\ s[k] = "\n"
        /\ \A m \in (j + 1)..(k - 1) : s[m] \in Whitespace

\* C9 (as claimed, read as loosely as its words allow): for a preprocessed
\* text and max_segment_length > 0, the segments joined with "\n\n" are the
\* text again up to whitespace, i.e. they carry the same words in the same
\* order.
C9_JoinReproducesText ==
    (fpc = "split" /\ passes = 1 /\ max_segment_length > 0) =>
        Words(Join(segments, <<"\n", "\n">>)) = Words(doc)

\* C10 (as claimed): when a paragraph longer than max_segment_length is
\* split, the lines of the emitted segments, read in order, are the lines of
\* the paragraph: none cut, joined, dropped or reordered (lines compared
\* trimmed and blank lines aside, which is all that trimming a flushed
\* buffer can change).
C10_SplitOnLineBoundaries ==
    (fpc = "split" /\ OneParagraph(doc) /\ Len(doc) > max_segment_length) =>
        TrimmedLines(SegmentLines(segments))
            = TrimmedLines(SplitOn(doc, "\n"))

-----------------------------------------------------------------------------
(* C11..C18: the formatter's contract *)

\* the lines of the text handed to split_into_segments
DocLines == SplitOn(doc, "\n")

\* C11: for max_segment_length > 0 every returned segment is at most
\* max_segment_length long, except a segment that is one single line of the
\* text (trimmed, as every flushed buffer is) which is itself longer than
\* max_segment_length.
C11_SegmentsBounded ==
    (fpc = "split" /\ max_segment_length > 0) =>
        LET lines == DocLines
        IN  \A n \in 1..Len(segments) :
                \/ Len(segments[n]) <= max_segment_length
                \/ /\ \A k \in 1..Len(segments[n]) : segments[n][k] # "\n"
                   /\ \E m \in 1..Len(lines) :
                         /\ Len(lines[m]) > max_segment_length
                         /\ Strip(lines[m]) = segments[n]

\* C11 witness: a long paragraph was split into a segment that fits and a
\* segment that is one over-long line
C11_Witness ==
    /\ fpc = "split"
    /\ max_segment_length > 0
    /\ OneParagraph(doc)
    /\ \E n \in 1..Len(segments) : Len(segments[n]) > max_segment_length
    /\ \E n \in 1..Len(segments) :
          segments[n] # <<>> /\ Len(segments[n]) <= max_segment_length

\* a paragraph break starts at j: a line break followed, after whitespace
\* only, by another line break, and not itself inside an earlier such run
BreakStart(s, j) ==
    /\ s[j] = "\n"
    /\ \E k \in (j + 1)..Len(s) :
          s[k] = "\n" /\ \A m \in (j + 1)..(k - 1) : s[m] \in Whitespace
    /\ ~\E h \in 1..(j - 1) :
          s[h] = "\n" /\ \A m \in (h + 1)..(j - 1) : s[m] \in Whitespace

\* where the paragraph break that starts at j ends: its last line break
BreakStop(s, j) ==
    LET stops == {k \in (j + 1)..Len(s) :
                     s[k] = "\n"
                         /\ \A m \in (j + 1)..(k - 1) : s[m] \in Whitespace}
    IN  CHOOSE k \in stops : \A r \in stops : r <= k

\* the paragraphs of the text from position from on, in order
RECURSIVE ParagraphsFrom(_, _)
ParagraphsFrom(s, from) ==
    LET starts == {j \in from..Len(s) : BreakStart(s, j)}
    IN  IF starts = {} THEN <<SubSeq(s, from, Len(s))>>
        ELSE LET j == CHOOSE m \in starts : \A r \in starts : m <= r
             IN  <<SubSeq(s, from, j - 1)>>
                     \o ParagraphsFrom(s, BreakStop(s, j) + 1)

\* the members of seq that satisfy Len <= bound, in order
RECURSIVE Fitting(_, _)
Fitting(seq, bound) ==
    IF seq = <<>> THEN <<>>
    ELSE (IF Len(Head(seq)) <= bound THEN <<Head(seq)>> ELSE <<>>)
         \o Fitting(Tail(seq), bound)

\* sub can be read off seq in order, skipping members of seq
RECURSIVE IsSubsequence(_, _)
IsSubsequence(sub, seq) ==
    IF sub = <<>> THEN TRUE
    ELSE IF seq = <<>> THEN FALSE
    ELSE IF Head(sub) = Head(seq) THEN IsSubsequence(Tail(sub), Tail(seq))
    ELSE IsSubsequence(sub, Tail(seq))

\* C12: the text is cut at its paragraph breaks; every paragraph that fits
\* max_segment_length is a segment of its own, unchanged and in input order
\* (the segments are exactly the paragraphs up to the first one that does
\* not fit), and a text with k paragraph breaks gives at least k + 1
\* segments, so more than one whenever it has several paragraphs.
C12_ParagraphsFirst ==
    fpc = "split" =>
        LET paragraphs == ParagraphsFrom(doc, 1)
        IN  /\ Len(segments) >= Len(paragraphs)
            /\ IsSubsequence(Fitting(paragraphs, max_segment_length), segments)
            /\ \A p \in 1..Len(paragraphs) :
                  (\A q \in 1..p :
                       Len(paragraphs[q]) <= max_segment_length) =>
                      segments[p] = paragraphs[p]
            /\ (\A p \in 1..Len(paragraphs) :
                    Len(paragraphs[p]) <= max_segment_length) =>
                   segments = paragraphs

\* C12 witness: a text longer than max_segment_length with two paragraphs,
\* the first fitting and emitted with the whitespace around it, the second
\* too long
C12_Witness ==
    /\ fpc = "split"
    /\ max_segment_length > 0
    /\ Len(doc) > max_segment_length
    /\ LET paragraphs == ParagraphsFrom(doc, 1)
       IN  /\ Len(paragraphs) = 2
           /\ Strip(paragraphs[1]) # paragraphs[1]
           /\ Len(paragraphs[1]) <= max_segment_length
           /\ Len(paragraphs[2]) > max_segment_length
           /\ segments[1] = paragraphs[1]

\* C13 (as claimed): a text whose length is at most max_segment_length comes
\* back as exactly one segment, the whole text, paragraph break or not.
C13_ShortTextOneSegment ==
    (fpc = "split" /\ Len(doc) <= max_segment_length) => segments = <<doc>>

\* C13 (amended): a text whose length is at most max_segment_length comes
\* back as exactly one segment, the whole text, when it holds no paragraph
\* break; when it holds paragraph breaks it is cut at them all the same and
\* comes back as its paragraphs, more than one segment.
C13_ShortTextCutAtBreaks ==
    (fpc = "split" /\ Len(doc) <= max_segment_length) =>
        IF OneParagraph(doc)
        THEN segments = <<doc>>
        ELSE /\ segments = ParagraphsFrom(doc, 1)
             /\ Len(segments) > 1
             /\ segments # <<doc>>

\* C13 witness: a text that fits, with a paragraph break between two
\* non-empty paragraphs, came back as two segments
C13_Witness ==
    /\ fpc = "split"
    /\ Len(doc) <= max_segment_length
    /\ Len(segments) = 2
    /\ segments[1] # <<>>
    /\ segments[2] # <<>>
    /\ doc = segments[1] \o <<"\n", "\n">> \o segments[2]

\* C14 (as claimed): the empty text gives no segment at all (stated for
\* max_segment_length > 0).
C14_EmptyTextNoSegments ==
    (fpc = "split" /\ doc = <<>> /\ max_segment_length > 0) =>
        segments = <<>>

\* C15 (as claimed): with max_segment_length <= 0 the call never returns a
\* segment list: it fails instead, for every text.
C15_NonPositiveLengthFails ==
    max_segment_length <= 0 => (fpc # "split" /\ segments = <<>>)

\* C16: preprocess_lyrics applied to its own result changes nothing: the
\* text after the second pass is the text after the first.
C16_PreprocessIdempotent ==
    /\ passes = 1 => doc = preprocess_lyrics(lyrics)
    /\ passes = 2 => doc = preprocess_lyrics(lyrics)

\* C16 witness: two passes over lyrics in which the first pass rewrote a
\* whitespace-only line into a paragraph separator
C16_Witness ==
    /\ passes = 2
    /\ doc # lyrics
    /\ \E k \in 1..(Len(lyrics) - 1) :
          lyrics[k] = "\n" /\ lyrics[k + 1] \in {" ", "\t"}
    /\ \E k \in 1..(Len(doc) - 1) : doc[k] = "\n" /\ doc[k + 1] = "\n"

\* the normal form the preprocessed text is claimed to have
NormalForm(s) ==
    \* every run of spaces and tabs is a single space
    /\ \A k \in 1..Len(s) : s[k] # "\t"
    /\ \A k \in 1..(Len(s) - 1) : ~(s[k] = " " /\ s[k + 1] = " ")
    \* blank or whitespace-only lines have become one "\n\n"
    /\ \A j, k \in 1..Len(s) :
          (/\ j + 1 < k
           /\ s[j] = "\n"
           /\ s[k] = "\n") => \E m \in (j + 1)..(k - 1) : s[m] \notin Whitespace
    \* no space next to a line break
    /\ \A k \in 1..(Len(s) - 1) :
          /\ ~(s[k] = " " /\ s[k + 1] = "\n")
          /\ ~(s[k] = "\n" /\ s[k + 1] = " ")
    \* no whitespace at either end
    /\ Strip(s) = s

\* C17 (as claimed): the output of preprocess_lyrics is in normal form for
\* every input: single spaces only, "\n\n" for every run of blank or
\* whitespace-only lines, no space next to a line break, nothing to trim.
C17_PreprocessNormalForm ==
    passes >= 1 => NormalForm(doc)

\* where the text of result n starts in the reassembled text (0-based)
RECURSIVE PartOffset(_, _)
PartOffset(results, n) ==
    IF n = 1 THEN 0
    ELSE PartOffset(results, n - 1)
             + Len(results[n - 1].translated_text) + 2

\* C18: reassemble_segments returns the translated_text fields in list
\* order with "\n\n" between neighbours and nothing else (one result: its
\* text unchanged; two: a, "\n\n", b), and calls no provider.
C18_ReassembleJoins ==
    fpc = "reassembled" =>
        LET results == segment_results
            count == Len(results)
        IN  /\ count = Len(segments)
            /\ count = 0 => reassembled = <<>>
            /\ count = 1 => reassembled = results[1].translated_text
            /\ count = 2 =>
                   reassembled = results[1].translated_text
                                     \o <<"\n", "\n">>
                                     \o results[2].translated_text
            /\ count > 0 =>
                   Len(reassembled) = PartOffset(results, count)
                       + Len(results[count].translated_text)
            /\ \A n \in 1..count :
                  LET from == PartOffset(results, n)
                      part == results[n].translated_text
                  IN  /\ SubSeq(reassembled, from + 1, from + Len(part)) = part
                      /\ n > 1 => /\ reassembled[from - 1] = "\n"
                                  /\ reassembled[from] = "\n"
            /\ log = <<>>

\* C18 witness: three results of different lengths were reassembled
C18_Witness ==
    /\ fpc = "reassembled"
    /\ Len(segment_results) = 3
    /\ Len(segment_results[1].translated_text)
           # Len(segment_results[2].translated_text)
    /\ Len(reassembled) > 6

-----------------------------------------------------------------------------
(* C19, C20: the cache gate of translate_lyrics *)

\* the cache key of the last call
CallKey ==
    CacheKey(hash_seed, call.text, call.target_lang, call.source_lang)

\* what a translator built with use_cache=False gives for the last call's
\* arguments and the same provider answer
WithoutCache ==
    translate_lyrics(DeepLTranslator("key", FALSE), call.text,
                     call.target_lang, call.source_lang, NoStore,
                     [seed |-> hash_seed, redis_up |-> FALSE,
                      response |-> call.response])

\* C19 (as claimed): no cache failure makes the translator fail. Building a
\* translator never fails because of the cache; and a call of a caching
\* translator that finds Redis down, or an undecodable value under its key,
\* raises or returns exactly what a translator without cache does, and with
\* Redis down leaves the store as it was.
C19_CacheBestEffort ==
    /\ tpc # "failed"
    /\ (tpc = "done" /\ translator.use_cache) =>
          LET key == CallKey
              unavailable == ~call.redis_up
              undecodable == /\ call.redis_up
                             /\ key \in DOMAIN redis_before
                             /\ redis_before[key] \in {Garbage, NotUtf8}
              plain == WithoutCache
          IN  (unavailable \/ undecodable) =>
                  /\ call_result.raise = plain.raise
                  /\ call_result.value = plain.value
                  /\ unavailable => redis = redis_before

\* what TranslationCache.get finds for the last call in the store as it was
\* before the call
LookedBefore == CacheGet(redis_before, CallKey, call.redis_up)

\* the last call repeats the call before it: same text, same languages, same
\* process, Redis reachable both times
RepeatedCall ==
    /\ calls >= 2
    /\ prev_call.text = call.text
    /\ prev_call.target_lang = call.target_lang
    /\ prev_call.source_lang = call.source_lang
    /\ prev_call.redis_up /\ call.redis_up

\* C20: a caching translator asks the cache before the provider. On a hit
\* (get returns a value) the call returns that value and makes no network
\* call. On a miss (get returns None) it makes exactly one network call, and
\* when that call succeeds and Redis is reachable the returned result is
\* stored under the call's key. A call that repeats a call that returned is a
\* hit: no network call, the same result.
C20_CacheBeforeProvider ==
    (tpc = "done" /\ translator.use_cache) =>
        LET looked == LookedBefore
            key == CallKey
            hit == looked.raise = "" /\ looked.value # NoDict
            miss == looked.raise = "" /\ looked.value = NoDict
        IN  /\ call_result.gets = 1
            /\ hit => /\ call_result.raise = ""
                      /\ call_result.value = looked.value[1]
                      /\ call_result.net = 0
                      /\ redis = redis_before
            /\ miss => /\ call_result.net = 1
                       /\ (call_result.raise = "" /\ call.redis_up) =>
                              /\ key \in DOMAIN redis
                              /\ redis[key] = JsonDumps(call_result.value)
                       /\ call_result.raise # "" => redis = redis_before
            /\ (RepeatedCall /\ prev_result.raise = "") =>
                   /\ hit
                   /\ call_result.net = 0
                   /\ call_result.value = prev_result.value

\* a miss answered by the provider and stored, then the same request again,
\* answered from the cache although the provider would now refuse
C20_Witness ==
    /\ tpc = "done" /\ translator.use_cache
    /\ RepeatedCall
    /\ prev_result.raise = "" /\ prev_result.net = 1 /\ prev_result.sets = 1
    /\ call.response = HttpError(429)
    /\ call_result.raise = "" /\ call_result.net = 0
    /\ call_result.value = prev_result.value
    /\ call_result.value.original_text = call.text

-----------------------------------------------------------------------------
(* C21: provider failures in translate_lyrics *)

\* the last call got as far as the provider: no cache, or the lookup missed
ProviderAsked ==
    /\ tpc = "done"
    /\ \/ ~translator.use_cache
       \/ LookedBefore = Looked("", NoDict)

\* C21: when translate_lyrics reaches the provider, a 429 answer raises
\* RateLimitError, any other status than 200 raises TranslationError itself
\* (not the RateLimitError subclass), and a network exception or a timeout
\* raises TranslationError; in each of these cases nothing is returned and
\* the cache is left as it was.
C21_ProviderErrorKinds ==
    ProviderAsked =>
        LET response == call.response
            failed == response.exception # "" \/ response.status_code # 200
        IN  /\ (response.exception = "" /\ response.status_code = 429)
                   => call_result.raise = "RateLimitError"
            /\ (response.exception = ""
                    /\ response.status_code \notin {200, 429})
                   => call_result.raise = "TranslationError"
            /\ response.exception # ""
                   => call_result.raise = "TranslationError"
            /\ failed => /\ call_result.raise # ""
                         /\ call_result.value = NoDict
                         /\ call_result.net = 1
                         /\ call_result.sets = 0
                         /\ redis = redis_before

\* a caching translator with Redis up and nothing under the key is refused
\* by the provider with 429, after an earlier call of it failed otherwise
C21_Witness ==
    /\ ProviderAsked /\ translator.use_cache /\ call.redis_up
    /\ CallKey \notin DOMAIN redis_before
    /\ call.response = HttpError(429)
    /\ call_result.raise = "RateLimitError"
    /\ calls >= 2
    /\ prev_call.response \in {HttpError(500), NetworkTimeout}
    /\ prev_result.raise = "TranslationError"

-----------------------------------------------------------------------------
(* C22: the outcomes of POST /translate *)

\* the segments the handler works through, computed from the request
RequestSegments ==
    split_into_segments(preprocess_lyrics(request.lyrics), MAX_SEGMENT)

\* positions in the history of the segment calls that raised
FailedCalls == {p \in 1..Len(log) : log[p].raise # ""}

\* C22: with the key configured, POST /translate sends the segments one by
\* one in segment order and stops at the first call that raises. It ends
\* either with status 200 and the text joined from one result per segment,
\* in segment order, or with the status of the first failing call's error
\* (InvalidLanguageError 400, RateLimitError 429, TranslationError or any
\* other exception 500) and no translated text; no call follows a failed one.
C22_TranslateAllOrError ==
    DEEPL_API_KEY # "" =>
        LET segs == RequestSegments
            sent == Len(log)
            failed == FailedCalls
        IN  /\ sent <= Len(segs)
            /\ \A p \in 1..sent :
                  log[p].op = "single" /\ log[p].texts = <<segs[p]>>
            /\ \A p \in failed : p = sent /\ pc = "done"
            /\ pc = "done" =>
                  IF failed = {}
                  THEN /\ http.status_code = 200
                       /\ sent = Len(segs)
                       /\ Len(segment_results) = Len(segs)
                       /\ \A n \in 1..Len(segs) :
                             /\ segment_results[n].original_text = segs[n]
                             /\ segment_results[n].translated_text
                                    = Translated(segs[n])
                       /\ http.translated_lyrics =
                              Join([n \in 1..Len(segs) |->
                                       segment_results[n].translated_text],
                                   <<"\n", "\n">>)
                       /\ http.original_lyrics = request.lyrics
                  ELSE /\ "translated_lyrics" \notin DOMAIN http
                       /\ LET kind == log[sent].raise
                          IN  http.status_code =
                                  CASE kind = "InvalidLanguageError" -> 400
                                    [] kind = "RateLimitError" -> 429
                                    [] OTHER -> 500

\* three segments, the first translated, the second refused with 429: the
\* request ends with 429 and the third segment is never sent
C22_Witness ==
    /\ DEEPL_API_KEY # "" /\ pc = "done"
    /\ Len(RequestSegments) = 3
    /\ Len(log) = 2
    /\ log[1].raise = "" /\ log[2].raise = "RateLimitError"
    /\ http.status_code = 429
    /\ Len(segment_results) = 1

\* three segments translated and joined
C22_WitnessComplete ==
    /\ DEEPL_API_KEY # "" /\ pc = "done"
    /\ Len(RequestSegments) = 3
    /\ http.status_code = 200
    /\ Len(log) = 3
    /\ Len(http.translated_lyrics) > Len(request.lyrics)

-----------------------------------------------------------------------------
(* C23: translate_batch_lyrics *)

\* C23 (as claimed): translate_batch_lyrics returns one result per text, in
\* the order of the texts, the k-th result carrying the k-th text as its
\* original_text; when a call for a text fails it raises that call's error
\* and returns no list.
C23_BatchOnePerText ==
    tpc = "batched" =>
        LET texts == call.texts
            results == call_result.value
        IN  IF call_result.raise = ""
            THEN /\ Len(results) = Len(texts)
                 /\ \A k \in 1..Len(texts) :
                       results[k].original_text = texts[k]
            ELSE /\ call_result.raise = "RateLimitError"
                 /\ results = <<>>

-----------------------------------------------------------------------------
(* C28: what the cache key identifies *)

\* the last call asks for the same text and languages as the call before it
SameRequestAsBefore ==
    /\ calls >= 2
    /\ prev_call.text = call.text
    /\ prev_call.target_lang = call.target_lang
    /\ prev_call.source_lang = call.source_lang

\* the last call was answered from the cache
CacheHit ==
    /\ tpc = "done" /\ translator.use_cache
    /\ LookedBefore.raise = "" /\ LookedBefore.value # NoDict

\* C28 (as claimed): the cache key is a function of (source language or
\* "auto", target language, text) alone, so the same request has the same
\* key in every process and translator; and a hit returns a result stored
\* for the requested text and target language.
C28_KeyIdentifiesRequest ==
    tpc = "done" =>
        /\ SameRequestAsBefore => call.key = prev_call.key
        /\ CacheHit => /\ call_result.value.original_text = call.text
                       /\ call_result.value.target_language = call.target_lang

\* the same key in every process
C28_KeyDeterministic ==
    (tpc = "done" /\ SameRequestAsBefore) => call.key = prev_call.key

\* a hit gives back the requested text
C28_HitForSameText ==
    CacheHit => /\ call_result.value.original_text = call.text
                /\ call_result.value.target_language = call.target_lang

-----------------------------------------------------------------------------
(* C24: two requests at once *)

\* where a request running alone stands after its provider-facing calls gave
\* back `given`, one after another: st is [overlay, detected, i, fb, used]
RECURSIVE AloneAfter(_, _, _)
AloneAfter(req, st, given) ==
    LET input == InputUnits(req)
        indices == TranslateIndices(input, 1)
        texts == [m \in 1..Len(indices) |-> input[indices[m]].text]
        batch == Chunk(texts, st.i)
        batch_indices == Chunk(indices, st.i)
        synced == SyncedBranch(req)
    IN  IF st.i >= Len(indices) \/ given = <<>> THEN st
        ELSE LET a == Head(given)
             IN  IF st.fb = 0
                 THEN IF a.ok
                      THEN AloneAfter(req,
                               [overlay |-> ZipAssign(st.overlay, input,
                                                      a.value, batch_indices,
                                                      synced),
                                detected |-> DetectedAfter(st.detected,
                                                           a.value),
                                i |-> st.i + BATCH_SIZE, fb |-> 0,
                                used |-> st.used + 1],
                               Tail(given))
                      ELSE AloneAfter(req,
                               [st EXCEPT !.fb = 1, !.used = @ + 1],
                               Tail(given))
                 ELSE LET idx == batch_indices[st.fb]
                          outcome == [raise |-> IF a.ok THEN ""
                                                ELSE "Exception",
                                      value |-> a.value]
                          line == FallbackLine(input[idx], batch[st.fb],
                                               outcome, synced)
                          last == st.fb = Len(batch)
                      IN  AloneAfter(req,
                              [overlay |-> [st.overlay EXCEPT
                                               ![idx] = <<line>>],
                               detected |-> st.detected,
                               i |-> IF last THEN st.i + BATCH_SIZE ELSE st.i,
                               fb |-> IF last THEN 0 ELSE st.fb + 1,
                               used |-> st.used + 1],
                              Tail(given))

\* the answer of a request that ran alone and was given `given`
AloneOutput(req, key, given) ==
    IF key = "" THEN HttpException(500)
    ELSE LET end == AloneAfter(req,
                        [overlay |-> InitialOverlay(InputUnits(req)),
                         detected |-> None, i |-> 0, fb |-> 0, used |-> 0],
                        given)
         IN  OverlayTranslationResponse(end.overlay, req.target_lang,
                                        end.detected)

\* a finished request answered what it would have answered alone
AsAlone(frame) ==
    frame.pc = "done" =>
        frame.http = AloneOutput(frame.request, DEEPL_API_KEY, frame.answers)

\* the texts of a request's units
FrameTexts(frame) ==
    LET input == InputUnits(frame.request)
    IN  {input[n].text : n \in 1..Len(input)}

\* every text a request sent to the provider is one of its own
SentOwnTexts(frame) ==
    \A p \in 1..Len(frame.log) :
       \A m \in 1..Len(frame.log[p].texts) :
          frame.log[p].texts[m] \in FrameTexts(frame)

\* every entry of a request's output list comes from one of its own units
OwnEntries(frame) ==
    (frame.pc = "done" /\ frame.http.status_code = 200) =>
        LET input == InputUnits(frame.request)
        IN  /\ Len(frame.http.lines) = Len(input)
            /\ \A n \in 1..Len(input) :
                  /\ frame.http.lines[n].timestamp_ms = input[n].timestamp_ms
                  /\ frame.http.lines[n].translated
                         \in {<<>>, input[n].text, Translated(input[n].text)}

\* C24: two /translate-lines requests interleaved at their awaits. Each one,
\* when it has finished, has answered exactly what it would answer running
\* alone and being given the same call results in the same order; every
\* entry of its output comes from its own units, and it has sent no text of
\* the other request.
C24_RequestsIsolated ==
    parked # <<>> =>
        LET mine == Frame
            other == parked[1]
        IN  /\ AsAlone(mine) /\ AsAlone(other)
            /\ OwnEntries(mine) /\ OwnEntries(other)
            /\ SentOwnTexts(mine) /\ SentOwnTexts(other)

\* the short request has finished with a result, after a failed batch call
\* and a failed single-unit call, while the long request is suspended
\* between its two chunks with a detected language of its own
C24_Witness ==
    /\ parked # <<>>
    /\ pc = "done" /\ http.status_code = 200
    /\ Len(units) = 2
    /\ Len(answers) = 3
    /\ ~answers[1].ok /\ answers[2].ok /\ ~answers[3].ok
    /\ http.detected_language = None
    /\ parked[1].pc = "sleep"
    /\ Len(parked[1].answers) = 1
    /\ parked[1].detected_lang = DetectedLanguage

-----------------------------------------------------------------------------
(* C25: the line pipeline finishes *)

\* the chunk offset only moves forward, one chunk at a time
ChunkAdvances == i' >= i /\ (i' # i => i' = i + BATCH_SIZE)

\* C25: a /translate-lines request that has started eventually ends with a
\* result or an error status, given that every await completes; on the way
\* the chunk offset never goes back, and a batch call is only ever made for
\* a chunk that has had none (no retry).
C25_RequestFinishes ==
    /\ (pc = "start") ~> (pc = "done" /\ http.status_code \in {200, 400, 429, 500})
    /\ [][ChunkAdvances]_vars
    /\ [](pc = "batch" => Cardinality(EventsOf("batch")) * BATCH_SIZE = i)

\* a request of two chunks has finished with a result although the batch
\* call of its second chunk failed and a single-unit call failed too
C25_Witness ==
    /\ ReturnedResult
    /\ i = 2 * BATCH_SIZE
    /\ Cardinality(EventsOf("batch")) = 2
    /\ Cardinality(EventsOf("sleep")) = 1
    /\ \E p \in EventsOf("batch") : p > 1 /\ log[p].raise # ""
    /\ \E p \in EventsOf("single") : log[p].raise # ""

-----------------------------------------------------------------------------
(* C26: how often a unit is sent and its output slot assigned *)

\* the provider-facing calls of the history (everything but the delays)
CallEvents == {p \in 1..Len(log) : log[p].op # "sleep"}

\* the entry of `answers` that belongs to the call at position p
CallRank(p) == Cardinality({q \in CallEvents : q <= p})

\* the texts the call at position p assigned an output slot for: a batch
\* call that returned assigns one per result (zip stops at the shorter
\* list), a failed one none; a single-unit call always assigns its unit
\* (the translation, or the original text)
AssignedAt(p) ==
    IF log[p].op = "single" THEN log[p].texts
    ELSE IF log[p].op = "batch" /\ log[p].raise = ""
    THEN SubSeq(log[p].texts, 1,
                Min(Len(log[p].texts), Len(answers[CallRank(p)].value)))
    ELSE <<>>

\* the texts carried by the calls of one kind, in the order sent
RECURSIVE SentFrom(_, _)
SentFrom(op, p) ==
    IF p > Len(log) THEN <<>>
    ELSE (IF log[p].op = op THEN log[p].texts ELSE <<>>) \o SentFrom(op, p + 1)

\* the texts whose slots were assigned, in the order of assignment
RECURSIVE AssignedFrom(_)
AssignedFrom(p) ==
    IF p > Len(log) THEN <<>> ELSE AssignedAt(p) \o AssignedFrom(p + 1)

TextsOf(seq) == {seq[n] : n \in 1..Len(seq)}

NoRepeat(seq) == Cardinality(TextsOf(seq)) = Len(seq)

\* the batch call of the chunk a single-unit call belongs to
ChunkCall(p) == CHOOSE b \in EventsOf("batch") :
                    b < p /\ \A c \in EventsOf("batch") : c < p => c <= b

\* every unit is in one batch call and at most one single-unit call, that
\* one only after its chunk's batch call failed (each line of the requests
\* explored has its own text, so a text names its unit)
SentOnce ==
    LET nonblank == NonBlankUnits
        batched == SentFrom("batch", 1)
        singly == SentFrom("single", 1)
    IN  /\ NoRepeat(nonblank)
        /\ NoRepeat(batched)
        /\ TextsOf(batched) \subseteq TextsOf(nonblank)
        /\ LoopOver => TextsOf(batched) = TextsOf(nonblank)
        /\ NoRepeat(singly)
        /\ \A p \in EventsOf("single") :
               /\ \E b \in EventsOf("batch") : b < p
               /\ log[ChunkCall(p)].raise # ""
               /\ log[p].texts[1] \in TextsOf(log[ChunkCall(p)].texts)

\* a request with N non-blank units makes at most ceil(N/20) + N calls
CallsBounded ==
    Cardinality(CallEvents)
        <= CeilDiv(Len(NonBlankUnits), BATCH_SIZE) + Len(NonBlankUnits)

\* C26 (as claimed): every non-blank unit is sent in exactly one batch call
\* and in at most one single-unit call, the latter only if its chunk's batch
\* call failed; once the loop is over each output slot has been assigned
\* exactly once; the request makes at most ceil(N/20) + N provider calls.
C26_SlotsAssignedOnce ==
    LET assigned == AssignedFrom(1)
    IN  /\ SentOnce
        /\ CallsBounded
        /\ NoRepeat(assigned)
        /\ LoopOver => TextsOf(assigned) = TextsOf(NonBlankUnits)

\* C26 (amended): the same, but a slot is assigned at most once, and exactly
\* once whenever the handler returns a result; a batch call that returns
\* fewer results than units leaves the rest of its chunk unassigned.
C26_SentOnceAssignedAtMostOnce ==
    LET assigned == AssignedFrom(1)
    IN  /\ SentOnce
        /\ CallsBounded
        /\ NoRepeat(assigned)
        /\ TextsOf(assigned) \subseteq TextsOf(NonBlankUnits)
        /\ ReturnedResult => TextsOf(assigned) = TextsOf(NonBlankUnits)

\* C26 witness: a returned result of two chunks, the first sent again unit
\* by unit after its batch call failed, the second assigned from its batch
C26_Witness ==
    /\ ReturnedResult
    /\ Len(NonBlankUnits) > BATCH_SIZE
    /\ Len(SentFrom("single", 1)) = BATCH_SIZE
    /\ Cardinality(CallEvents) = 2 + BATCH_SIZE
    /\ \E p, q \in EventsOf("batch") :
          /\ p < q
          /\ log[p].raise # ""
          /\ log[q].raise = ""
          /\ AssignedAt(q) = log[q].texts

-----------------------------------------------------------------------------
(* C27: a batch answer with the wrong number of translations *)

\* the batch call at position p was answered with more translations than
\* texts (texts[i] raises IndexError) or with fewer (the results list comes
\* back shorter than the chunk)
MismatchedBatch(p) ==
    /\ log[p].op = "batch"
    /\ \/ log[p].raise = "IndexError"
       \/ /\ log[p].raise = ""
          /\ Len(answers[CallRank(p)].value) # Len(log[p].texts)

\* line n of the result carries line n's own text and, for a non-blank line,
\* its own translation or (after a failed single-unit call) its own text
OwnEntry(n) ==
    LET text == InputTexts[n]
    IN  IsBlank(text) \/
            /\ http.lines[n].original = text
            /\ http.lines[n].translated \in {Translated(text), text}

\* C27: a batch call answered with a number of translations other than the
\* number of units sent is followed by the per-item fallback of its chunk or
\* the request ends in an error; a result returned after such a call has one
\* entry per line, each with its own unit's translation or text.
C27_MismatchFailsOrFallsBack ==
    \A p \in EventsOf("batch") :
        MismatchedBatch(p) =>
            /\ log[p].raise = "" => (pc = "done" => http.status_code = 500)
            /\ log[p].raise # "" =>
                   /\ pc \in {"fallback", "sleep", "batch", "respond", "done"}
                   /\ p < Len(log) => log[p + 1].op = "single"
            /\ ReturnedResult =>
                   /\ Len(http.lines) = Len(InputTexts)
                   /\ \A n \in 1..Len(InputTexts) : OwnEntry(n)

\* C27 witness: a request ended in HTTP 500 after a batch call returned one
\* result too few, a unit standing beside its neighbour's translation and
\* the last unit of the chunk without an entry
C27_Witness ==
    /\ pc = "done"
    /\ http.status_code = 500
    /\ \E p \in EventsOf("batch") : MismatchedBatch(p) /\ log[p].raise = ""
    /\ \E n \in 1..Len(overlay_lines) : overlay_lines[n] = NoneLine
    /\ \E n, m \in 1..Len(overlay_lines) :
          /\ n # m
          /\ overlay_lines[n] # NoneLine
          /\ ~IsBlank(InputTexts[m])
          /\ overlay_lines[n][1].translated = Translated(InputTexts[m])

\* the other way out: a result returned after one translation too many sent
\* the chunk through the per-item fallback
C27_WitnessFallback ==
    /\ ReturnedResult
    /\ \E p \in EventsOf("batch") :
          /\ log[p].raise = "IndexError"
          /\ Len(log[p].texts) > 1
          /\ p + Len(log[p].texts) <= Len(log)

-----------------------------------------------------------------------------
(* C29: the errors of translate_lyrics and translate_batch_sync *)

\* the typed family of translation_library/exceptions.py
TypedErrors == {"InvalidLanguageError", "RateLimitError", "TranslationError"}

\* C29 (as claimed): a finished call of translate_lyrics has returned a
\* result or raised InvalidLanguageError, RateLimitError or TranslationError,
\* whatever the provider answered; in particular never an untyped exception
\* for a 200 answer without translations or with a field missing.
C29_ErrorsTyped ==
    tpc = "done" => call_result.raise \in TypedErrors \cup {""}

\* the same for translate_batch_sync, over the batch calls of the pipeline
C29_BatchErrorsTyped ==
    \A p \in EventsOf("batch") : log[p].raise \in TypedErrors \cup {""}

-----------------------------------------------------------------------------
(* C30: split_into_segments keeps the content *)

\* the text with all whitespace removed
WithoutWhitespace(s) == SelectSeq(s, LAMBDA c : c \notin Whitespace)

\* how many non-whitespace characters stand in the segments before the n-th
RECURSIVE ContentBefore(_, _)
ContentBefore(segs, n) ==
    IF n = 1 THEN 0
    ELSE ContentBefore(segs, n - 1) + Len(WithoutWhitespace(segs[n - 1]))

\* C30: the segments split_into_segments returns, concatenated in order and
\* with all whitespace removed, are the input text with all whitespace
\* removed; segment n holds the stretch of that content that starts where
\* segment n - 1 stopped, so no two segments overlap.
C30_SplitKeepsContent ==
    fpc # "text" =>
        LET content == WithoutWhitespace(doc)
        IN  /\ WithoutWhitespace(Join(segments, <<>>)) = content
            /\ \A n \in 1..Len(segments) :
                   WithoutWhitespace(segments[n]) =
                       SubSeq(content, ContentBefore(segments, n) + 1,
                              ContentBefore(segments, n + 1))

\* C30 witness: a paragraph too long for max_segment_length was cut into two
\* segments between its lines, the second segment holding two lines glued
\* together, and whitespace of the text is in neither
C30_Witness ==
    /\ fpc = "split"
    /\ Len(ReSplit(doc, 1, 1)) = 1
    /\ Len(doc) > max_segment_length
    /\ Len(segments) = 2
    /\ Len(WithoutWhitespace(doc)) >= 3
    /\ \A n \in 1..2 : segments[n] = WithoutWhitespace(segments[n])
    /\ Len(WithoutWhitespace(segments[2])) = 2
    /\ Len(doc) > Len(WithoutWhitespace(doc)) + 1

====
